---- MODULE Spec2Model ----
(***************************************************************************)
(* State-machine model of the RMM tray agent (src-tauri/src): the          *)
(* enrollment protocol with its retry schedule and rejection classifier,   *)
(* the credential file, the agent state, the status monitor, the tray      *)
(* "install" status check, the metrics loop and the shutdown token.        *)
(***************************************************************************)
EXTENDS Integers, Sequences, FiniteSets, TLC

(***************************************************************************)
(* Bounds of the model                                                      *)
(***************************************************************************)
\* /api/enroll requests explored within one enroll call
MaxEnrollRequests == 7
\* /api/metrics POSTs explored within one run
MaxMetricsPosts == 2

(***************************************************************************)
(* Program constants                                                        *)
(***************************************************************************)
\* reqwest::StatusCode::FORBIDDEN
FORBIDDEN == 403
\* the delay used once the retry table is exhausted
MaxRetryDelay == 300
\* let retry_delays = [30, 60, 120, 240, 300];
retry_delays == <<30, 60, 120, 240, 300>>

(***************************************************************************)
(* Strings: str::to_lowercase, str::contains, str::trim                     *)
(***************************************************************************)
UpperChars == "ABCDEFGHIJKLMNOPQRSTUVWXYZ"
LowerChars == "abcdefghijklmnopqrstuvwxyz"
Whitespace == {" ", "\n", "\t"}

CharAt(s, i) == SubSeq(s, i, i)

LowerChar(c) ==
  IF \E i \in 1..Len(UpperChars) : CharAt(UpperChars, i) = c
  THEN CharAt(LowerChars, CHOOSE i \in 1..Len(UpperChars) : CharAt(UpperChars, i) = c)
  ELSE c

RECURSIVE to_lowercase(_)
to_lowercase(s) ==
  IF Len(s) = 0 THEN ""
  ELSE LowerChar(CharAt(s, 1)) \o to_lowercase(SubSeq(s, 2, Len(s)))

RECURSIVE contains_from(_, _, _)
contains_from(hay, needle, i) ==
  IF i + Len(needle) - 1 > Len(hay) THEN FALSE
  ELSE IF SubSeq(hay, i, i + Len(needle) - 1) = needle THEN TRUE
  ELSE contains_from(hay, needle, i + 1)

contains(hay, needle) == contains_from(hay, needle, 1)

RECURSIVE trim_start(_)
trim_start(s) ==
  IF Len(s) > 0 /\ CharAt(s, 1) \in Whitespace
  THEN trim_start(SubSeq(s, 2, Len(s))) ELSE s

RECURSIVE trim_end(_)
trim_end(s) ==
  IF Len(s) > 0 /\ CharAt(s, Len(s)) \in Whitespace
  THEN trim_end(SubSeq(s, 1, Len(s) - 1)) ELSE s

\* a trim that leaves trailing whitespace in place
trim_leading_only(s) == trim_start(s)

trim(s) == trim_end(trim_start(s))

(***************************************************************************)
(* enrollment.rs: the rejection classifier                                  *)
(***************************************************************************)
is_success(status) == status >= 200 /\ status < 300

\* a classifier that compares the body as sent, without folding its case
is_rejection_response_case_sensitive(status, body) ==
  /\ status = FORBIDDEN
  /\ \/ contains(body, "revoked")
     \/ contains(body, "rejected")
     \/ contains(body, "banned")
     \/ contains(body, "invalid")

\* a classifier that never reports a rejection
is_rejection_response_never(status, body) == FALSE

is_rejection_response(status, body) ==
  /\ status = FORBIDDEN
  /\ LET body_lower == to_lowercase(body) IN
       \/ contains(body_lower, "revoked")
       \/ contains(body_lower, "rejected")
       \/ contains(body_lower, "banned")
       \/ contains(body_lower, "invalid")

(***************************************************************************)
(* enrollment.rs: the retry schedule of enroll                              *)
(***************************************************************************)
\* a schedule that keeps doubling once the table is exhausted
retry_delay_uncapped(attempt) ==
  IF attempt < Len(retry_delays) THEN retry_delays[attempt + 1] ELSE 2 * MaxRetryDelay

\* the delay chosen after a transient failure at position `attempt`
retry_delay(attempt) ==
  IF attempt < Len(retry_delays) THEN retry_delays[attempt + 1] ELSE MaxRetryDelay

\* `attempt` after the sleep has elapsed: += 1 inside the table, unchanged after it
next_attempt(attempt) ==
  IF attempt < Len(retry_delays) THEN attempt + 1 ELSE attempt

\* tokio::select! over cancellation_token.cancelled() and tokio::time::sleep:
\* the branches that are ready; with both ready either one may be taken
select(is_cancelled, timer_elapsed) ==
  (IF is_cancelled THEN {"cancelled"} ELSE {}) \cup
  (IF timer_elapsed THEN {"sleep"} ELSE {})

(***************************************************************************)
(* storage.rs: the credential file.  <<>> is "no file", <<s>> a file        *)
(* holding s.                                                               *)
(***************************************************************************)
NoFile == <<>>

\* a has_key that never finds the file
has_key_never(file) == FALSE

has_key(file) == file # NoFile

\* what read_key returns for an existing file
read_key(file) == trim(file[1])

\* outcomes of the file operations of save_key and delete_key
SaveOutcomes == {"ok", "err_before_write", "err_after_write"}
DeleteOutcomes == {"ok", "err"}

\* [file: the file afterwards, ok: whether Ok(()) is returned]
save_key(file, key, io) ==
  [file |-> IF io = "err_before_write" THEN file ELSE <<trim(key)>>,
   ok   |-> io = "ok"]

\* a delete_key that reports an absent credential as an error
delete_key_failing_when_absent(file, io) ==
  IF ~has_key(file) THEN [file |-> file, ok |-> FALSE]
  ELSE IF io = "ok" THEN [file |-> NoFile, ok |-> TRUE]
  ELSE [file |-> file, ok |-> FALSE]

delete_key(file, io) ==
  IF ~has_key(file) THEN [file |-> file, ok |-> TRUE]
  ELSE IF io = "ok" THEN [file |-> NoFile, ok |-> TRUE]
  ELSE [file |-> file, ok |-> FALSE]

(***************************************************************************)
(* agent.rs: AgentState                                                     *)
(***************************************************************************)
NotEnrolled == [tag |-> "NotEnrolled", msg |-> ""]
PendingApproval == [tag |-> "PendingApproval", msg |-> ""]
Active == [tag |-> "Active", msg |-> ""]
Revoked == [tag |-> "Revoked", msg |-> ""]
Error(m) == [tag |-> "Error", msg |-> m]

as_display(s) ==
  CASE s.tag = "NotEnrolled" -> "Not Enrolled"
    [] s.tag = "PendingApproval" -> "Pending Approval"
    [] s.tag = "Active" -> "Online"
    [] s.tag = "Revoked" -> "Revoked"
    [] s.tag = "Error" -> "Error: " \o s.msg

status_label(s) == "Status: " \o as_display(s)

\* Agent::new: the initial state, from the presence of the credential file
\* a construction that always starts Active
initial_state_always_active(file) == Active

\* Agent::new: the initial state, from EnrollmentManager::is_enrolled
initial_state(file) == IF has_key(file) THEN Active ELSE NotEnrolled

\* Agent::set_state: the value of self.state afterwards
\* a set_state that writes its log line on every call
set_state_logs_always(current, new) == TRUE

\* Agent::set_state: whether the call logs "Agent state changed"
set_state_logs(current, new) == current # new

set_state(current, new) == IF current # new THEN new ELSE current

(***************************************************************************)
(* enrollment.rs: EnrollmentStatus and check_status                         *)
(***************************************************************************)
\* what /api/check can answer: a transport error, a non-2xx status, a body
\* that does not parse, or a CheckResponse {status, api_key}
NoKey == <<>>
CheckAnswer(t, status, api_key) == [t |-> t, status |-> status, api_key |-> api_key]

ApiKeys == {"k1", " k2\n"}
UnknownStatuses == {"suspended"}

CheckAnswers ==
  {CheckAnswer("net_err", "", NoKey), CheckAnswer("http_err", "", NoKey),
   CheckAnswer("bad_json", "", NoKey)} \cup
  {CheckAnswer("json", "approved", <<k>>) : k \in ApiKeys} \cup
  {CheckAnswer("json", s, NoKey) : s \in {"approved", "pending", "revoked"} \cup UnknownStatuses}

\* Result<EnrollmentStatus>: kind is Approved, Pending, Revoked, Unknown or Err
StatusResult(kind, raw) == [kind |-> kind, raw |-> raw]

\* an approval arm that drops the error of save_key
approved_with_key_unchecked(saved) == StatusResult("Approved", "")

\* the "approved" arm with an api_key: save_key(..).await? then Ok(Approved)
approved_with_key(saved) ==
  IF saved.ok THEN StatusResult("Approved", "") ELSE StatusResult("Err", "")

\* an arm that takes the bare status "approved" for an approval
approved_without_key_as_approved == StatusResult("Approved", "")

\* the "approved" arm without an api_key
approved_without_key == StatusResult("Pending", "")

\* a check_status that stores whatever an "approved" answer carries, the
\* empty credential when it carries none
em_check_status_saving_any_approval(ans, file, io) ==
  IF ans.t = "json" /\ ans.status = "approved"
  THEN LET saved == save_key(file, IF ans.api_key = NoKey THEN "" ELSE ans.api_key[1], io)
       IN [result |-> approved_with_key(saved), file |-> saved.file]
  ELSE IF ans.t = "json" /\ ans.status = "pending"
  THEN [result |-> StatusResult("Pending", ""), file |-> file]
  ELSE [result |-> StatusResult("Err", ""), file |-> file]

\* EnrollmentManager::check_status on answer `ans`, with the credential file
\* `file` and the outcome `io` of the file operation it performs (if any):
\* [result: what it returns, file: the file afterwards]
em_check_status(ans, file, io) ==
  CASE ans.t # "json" -> [result |-> StatusResult("Err", ""), file |-> file]
    [] ans.t = "json" /\ ans.status = "approved" /\ ans.api_key # NoKey ->
         LET saved == save_key(file, ans.api_key[1], io) IN
           [result |-> approved_with_key(saved),
            file |-> saved.file]
    [] ans.t = "json" /\ ans.status = "approved" /\ ans.api_key = NoKey ->
         [result |-> approved_without_key, file |-> file]
    [] ans.t = "json" /\ ans.status = "pending" ->
         [result |-> StatusResult("Pending", ""), file |-> file]
    [] ans.t = "json" /\ ans.status = "revoked" ->
         [result |-> StatusResult("Revoked", ""),
          file |-> delete_key(file, io).file]
    [] OTHER ->
         [result |-> StatusResult("Unknown", ans.status), file |-> file]

\* the file-operation outcomes that check_status can meet on answer `ans`
IoOutcomes(ans, file) ==
  IF ans.t = "json" /\ ans.status = "approved" /\ ans.api_key # NoKey THEN SaveOutcomes
  ELSE IF ans.t = "json" /\ ans.status = "revoked" /\ has_key(file) THEN DeleteOutcomes
  ELSE {"ok"}

\* a wait_for_approval that takes a Pending poll for the approval
wait_for_approval_next_pending_ok(result) ==
  CASE result.kind \in {"Approved", "Pending"} -> "approval_ok"
    [] result.kind = "Revoked" -> "approval_err"
    [] OTHER -> "approval_wait"

\* wait_for_approval: where the loop goes on the result of one poll
wait_for_approval_next(result) ==
  CASE result.kind = "Approved" -> "approval_ok"
    [] result.kind = "Revoked" -> "approval_err"
    [] OTHER -> "approval_wait"

(***************************************************************************)
(* agent.rs: Agent::check_status, the state it sets on a poll result        *)
(***************************************************************************)
\* a check that reports every failure as an Error state
agent_check_status_err_as_error(result, current) ==
  CASE result.kind = "Approved" -> set_state(current, Active)
    [] result.kind = "Pending" -> set_state(current, PendingApproval)
    [] result.kind = "Revoked" -> set_state(current, Revoked)
    [] result.kind = "Unknown" -> set_state(current, Error("Unknown status: " \o result.raw))
    [] OTHER -> set_state(current, Error("Status check failed"))

\* a check that leaves the state alone on an unrecognized status
agent_check_status_ignoring_unknown(result, current) ==
  CASE result.kind = "Approved" -> set_state(current, Active)
    [] result.kind = "Pending" -> set_state(current, PendingApproval)
    [] result.kind = "Revoked" -> set_state(current, Revoked)
    [] OTHER -> current

\* Agent::check_status: the state after the match on the poll result
agent_check_status(result, current) ==
  CASE result.kind = "Approved" -> set_state(current, Active)
    [] result.kind = "Pending" -> set_state(current, PendingApproval)
    [] result.kind = "Revoked" -> set_state(current, Revoked)
    [] result.kind = "Unknown" -> set_state(current, Error("Unknown status: " \o result.raw))
    [] OTHER -> current

\* Agent::check_status: the argument of the set_state call its arm makes on
\* the poll result, <<>> for the arm that makes none
check_status_target(result) ==
  CASE result.kind = "Approved" -> <<Active>>
    [] result.kind = "Pending" -> <<PendingApproval>>
    [] result.kind = "Revoked" -> <<Revoked>>
    [] result.kind = "Unknown" -> <<Error("Unknown status: " \o result.raw)>>
    [] OTHER -> <<>>

\* Agent::check_status: whether its set_state call logs a transition
agent_check_status_logs(result, current) ==
  LET target == check_status_target(result) IN
    target # <<>> /\ set_state_logs(current, target[1])

(***************************************************************************)
(* enrollment.rs: what /api/enroll can answer                               *)
(***************************************************************************)
EnrollResponse(t, status, body) == [t |-> t, status |-> status, body |-> body]
NoResponse == EnrollResponse("none", 0, "")

EnrollResponses ==
  {EnrollResponse("net_err", 0, ""),
   EnrollResponse("http", 202, ""),
   EnrollResponse("http", 403, "Device BANNED"),
   EnrollResponse("http", 403, "Forbidden"),
   EnrollResponse("http", 500, "invalid state")}

\* enroll after its wait: the cancellation branch falls through to the retry
enroll_after_wait_retrying(branch, attempt) ==
  [pc |-> "enroll_send", attempt |-> next_attempt(attempt), outcome |-> ""]

\* enroll after its wait: bail on the cancellation branch, attempt += 1 (inside
\* the table) and continue on the sleep branch
enroll_after_wait(branch, attempt) ==
  IF branch = "cancelled"
  THEN [pc |-> "start_err", attempt |-> attempt, outcome |-> "cancelled"]
  ELSE [pc |-> "enroll_send", attempt |-> next_attempt(attempt), outcome |-> ""]

(***************************************************************************)
(* The state                                                                *)
(***************************************************************************)
Callers == {"approval", "monitor", "install"}

NoCheck == [answer |-> CheckAnswer("none", "", NoKey), result |-> StatusResult("None", "")]

VARIABLES
  state,          \* Agent.state
  keyFile,        \* the credential file agent.key
  cancelled,      \* Agent.cancellation_token is cancelled
  mpc,            \* position of the task that runs Agent::start
  timerElapsed,   \* the sleep that task is selecting on has elapsed
  attempt,        \* enroll: attempt
  enrollResp,     \* enroll: the latest answer of /api/enroll
  enrollReqs,     \* enroll: number of /api/enroll requests this call has sent
  waits,          \* enroll: the delays this call has scheduled, in order
  enrollOutcome,  \* how enroll ended: "", "accepted", "rejected", "cancelled"
  wfaErr,         \* the error wait_for_approval bailed with
  chk,            \* per caller of check_status: the answer and result of the
                  \* poll whose result has not been acted on yet
  metricsKey,     \* the api_key handed to start_metrics_loop
  metricsPosts,   \* number of /api/metrics POSTs sent
  logged,         \* the step that led here wrote "Agent state changed" to the log
  serverUrl,      \* RuntimeConfig.server_url held in memory by this run
  configFile,     \* config.json: the persisted RuntimeConfig.server_url
  launchUrl,      \* the server_url RuntimeConfig::load returned at this run's setup
  marker,         \* update/pending.json
  staged,         \* update/rmm.exe.new, the staged binary
  currentExe,     \* the file at std::env::current_exe()
  backupExe,      \* the file at current_exe with extension exe.bak
  applyResult,    \* what apply_pending_update returned
  applyIo,        \* what the file system answered to that call's operations
  downloadLog,    \* the download_update call of this run: its inputs and result
  updateCheck,    \* the check_for_update call of this run: its inputs and result
  storeOp,        \* the last Storage call made directly: its inputs and result
  submitLog,      \* the last collect_and_submit call: its inputs and result
  payload,        \* the last collect_metrics call: its inputs and the payload
  gathered,       \* the hardware_fingerprint of each SystemInfo::gather so far
  updLoop         \* the task that runs Updater::start_update_loop

vars ==
  <<state, keyFile, cancelled, mpc, timerElapsed, attempt, enrollResp, enrollReqs,
    waits, enrollOutcome, wfaErr, chk, metricsKey, metricsPosts, logged,
    serverUrl, configFile, launchUrl, marker, staged, currentExe, backupExe,
    applyResult, applyIo, downloadLog, updateCheck, storeOp, submitLog,
    payload, gathered, updLoop>>

\* the runtime configuration
urlVars == <<serverUrl, configFile, launchUrl>>

\* the files of the updater
updVars ==
  <<marker, staged, currentExe, backupExe, applyResult, applyIo, downloadLog, updateCheck>>

\* what the model records about single calls of Storage and of the
\* metrics collector
ioVars == <<storeOp, submitLog>>

\* what the model records about collect_metrics, SystemInfo::gather and the
\* update loop
hostVars == <<payload, gathered, updLoop>>

\* what the agent's own tasks never touch
auxVars == <<urlVars, updVars, ioVars, hostVars>>

\* no server_url override: RuntimeConfig::default()
NoUrl == <<>>

\* the runtime configuration of a run that has no override and sets none
UrlIdle == serverUrl = NoUrl /\ configFile = NoFile /\ launchUrl = NoUrl

\* the updater's files of a run with nothing staged
UpdaterIdle ==
  /\ marker = NoFile /\ staged = NoFile /\ backupExe = NoFile
  /\ currentExe = <<"old">> /\ applyResult = "none" /\ applyIo = <<>>
  /\ downloadLog = <<>> /\ updateCheck = <<>>

\* no collect_metrics or gather call made, no update loop spawned
HostIdle == payload = <<>> /\ gathered = <<>> /\ updLoop = <<>>

\* the locals of enroll (and what the model records about the call)
enrollVars == <<attempt, enrollResp, enrollReqs, waits, enrollOutcome>>

InitialFiles == {NoFile, <<"k0">>}

\* The state once Agent::new has returned and main has spawned its tasks
Init ==
  /\ keyFile \in InitialFiles
  /\ state = initial_state(keyFile)
  /\ cancelled = FALSE
  /\ mpc = "start"
  /\ timerElapsed = FALSE
  /\ attempt = 0
  /\ enrollResp = NoResponse
  /\ enrollReqs = 0
  /\ waits = <<>>
  /\ enrollOutcome = ""
  /\ wfaErr = ""
  /\ chk = [c \in Callers |-> NoCheck]
  /\ metricsKey = NoKey
  /\ metricsPosts = 0
  /\ logged = FALSE
  /\ storeOp = <<>>
  /\ submitLog = <<>>
  /\ HostIdle
  /\ UrlIdle /\ UpdaterIdle

(***************************************************************************)
(* Agent::start                                                             *)
(***************************************************************************)
Start ==
  /\ mpc = "start"
  /\ IF has_key(keyFile)
     THEN /\ state' = set_state(state, Active)
          /\ metricsKey' = <<read_key(keyFile)>>
          /\ mpc' = "metrics_wait"
     ELSE /\ mpc' = "enroll_send"
          /\ UNCHANGED <<state, metricsKey>>
  /\ UNCHANGED <<keyFile, cancelled, timerElapsed, wfaErr, chk, metricsPosts>>
  /\ UNCHANGED enrollVars
  /\ logged' = (has_key(keyFile) /\ set_state_logs(state, Active))
  /\ UNCHANGED auxVars

(***************************************************************************)
(* EnrollmentManager::enroll                                                *)
(***************************************************************************)
EnrollSend ==
  /\ mpc = "enroll_send"
  /\ enrollReqs < MaxEnrollRequests
  /\ \E r \in EnrollResponses : enrollResp' = r
  /\ enrollReqs' = enrollReqs + 1
  /\ mpc' = "enroll_resp"
  /\ UNCHANGED <<state, keyFile, cancelled, timerElapsed, attempt, waits,
                 enrollOutcome, wfaErr, chk, metricsKey, metricsPosts>>
  /\ logged' = FALSE
  /\ UNCHANGED auxVars

\* a transient failure: pick the delay and start the wait
EnrollRetry ==
  /\ waits' = Append(waits, retry_delay(attempt))
  /\ timerElapsed' = FALSE
  /\ mpc' = "enroll_wait"
  /\ UNCHANGED enrollOutcome

EnrollHandle ==
  /\ mpc = "enroll_resp"
  /\ IF enrollResp.t = "net_err" THEN EnrollRetry
     ELSE IF is_success(enrollResp.status)
     THEN /\ mpc' = "enroll_ok"
          /\ enrollOutcome' = "accepted"
          /\ UNCHANGED <<waits, timerElapsed>>
     ELSE IF is_rejection_response(enrollResp.status, enrollResp.body)
     THEN /\ mpc' = "start_err"
          /\ enrollOutcome' = "rejected"
          /\ UNCHANGED <<waits, timerElapsed>>
     ELSE EnrollRetry
  /\ UNCHANGED <<state, keyFile, cancelled, attempt, enrollResp, enrollReqs, wfaErr,
                 chk, metricsKey, metricsPosts>>
  /\ logged' = FALSE
  /\ UNCHANGED auxVars

\* tokio::time::sleep reaches its deadline
TimerFires ==
  /\ ~timerElapsed
  /\ mpc \in {"enroll_wait", "approval_wait", "metrics_wait"}
  /\ timerElapsed' = TRUE
  /\ UNCHANGED <<state, keyFile, cancelled, mpc, wfaErr, chk, metricsKey, metricsPosts>>
  /\ UNCHANGED enrollVars
  /\ logged' = FALSE
  /\ UNCHANGED auxVars

EnrollWake ==
  /\ mpc = "enroll_wait"
  /\ \E branch \in select(cancelled, timerElapsed) :
       LET n == enroll_after_wait(branch, attempt) IN
         /\ mpc' = n.pc
         /\ attempt' = n.attempt
         /\ enrollOutcome' = n.outcome
  /\ timerElapsed' = FALSE
  /\ UNCHANGED <<state, keyFile, cancelled, enrollResp, enrollReqs, waits, wfaErr,
                 chk, metricsKey, metricsPosts>>
  /\ logged' = FALSE
  /\ UNCHANGED auxVars

(***************************************************************************)
(* Agent::enroll_device and EnrollmentManager::wait_for_approval            *)
(***************************************************************************)
\* enroll returned Ok: its locals are gone, the state is set and
\* wait_for_approval starts its first sleep
SetPendingApproval ==
  /\ mpc = "enroll_ok"
  /\ state' = set_state(state, PendingApproval)
  /\ mpc' = "approval_wait"
  /\ timerElapsed' = FALSE
  /\ attempt' = 0 /\ enrollReqs' = 0 /\ waits' = <<>> /\ enrollResp' = NoResponse
  /\ UNCHANGED <<keyFile, cancelled, enrollOutcome, wfaErr, chk, metricsKey,
                 metricsPosts>>
  /\ logged' = set_state_logs(state, PendingApproval)
  /\ UNCHANGED auxVars

ApprovalWake ==
  /\ mpc = "approval_wait"
  /\ \E branch \in select(cancelled, timerElapsed) :
       IF branch = "cancelled"
       THEN /\ mpc' = "approval_err"
            /\ wfaErr' = "Enrollment cancelled by shutdown signal"
       ELSE /\ mpc' = "approval_poll"
            /\ UNCHANGED wfaErr
  /\ timerElapsed' = FALSE
  /\ UNCHANGED <<state, keyFile, cancelled, chk, metricsKey, metricsPosts>>
  /\ UNCHANGED enrollVars
  /\ logged' = FALSE
  /\ UNCHANGED auxVars

\* one call of EnrollmentManager::check_status by caller c: the request, the
\* answer and the file operation the answer leads to
CheckStatus(c) ==
  \E ans \in CheckAnswers : \E io \in IoOutcomes(ans, keyFile) :
    LET r == em_check_status(ans, keyFile, io) IN
      /\ keyFile' = r.file
      /\ chk' = [chk EXCEPT ![c] = [answer |-> ans, result |-> r.result]]

ApprovalPoll ==
  /\ mpc = "approval_poll"
  /\ CheckStatus("approval")
  /\ mpc' = "approval_got"
  /\ UNCHANGED <<state, cancelled, timerElapsed, wfaErr, metricsKey, metricsPosts>>
  /\ UNCHANGED enrollVars
  /\ logged' = FALSE
  /\ UNCHANGED auxVars

ApprovalHandle ==
  /\ mpc = "approval_got"
  /\ mpc' = wait_for_approval_next(chk["approval"].result)
  /\ IF mpc' = "approval_ok" THEN UNCHANGED chk
     ELSE chk' = [chk EXCEPT !["approval"] = NoCheck]
  /\ wfaErr' = IF mpc' = "approval_err" THEN "Device was revoked during enrollment"
               ELSE wfaErr
  /\ timerElapsed' = FALSE
  /\ UNCHANGED <<state, keyFile, cancelled, metricsKey, metricsPosts>>
  /\ UNCHANGED enrollVars
  /\ logged' = FALSE
  /\ UNCHANGED auxVars

\* wait_for_approval returned Ok
ApprovedSetActive ==
  /\ mpc = "approval_ok"
  /\ state' = set_state(state, Active)
  /\ chk' = [chk EXCEPT !["approval"] = NoCheck]
  /\ mpc' = "approved_get_key"
  /\ UNCHANGED <<keyFile, cancelled, timerElapsed, wfaErr, metricsKey, metricsPosts>>
  /\ UNCHANGED enrollVars
  /\ logged' = set_state_logs(state, Active)
  /\ UNCHANGED auxVars

ApprovedGetKey ==
  /\ mpc = "approved_get_key"
  /\ IF has_key(keyFile)
     THEN /\ metricsKey' = <<read_key(keyFile)>>
          /\ mpc' = "metrics_wait"
          /\ UNCHANGED state
     ELSE /\ state' = set_state(state, Error("Device approved but no API key found"))
          /\ mpc' = "start_ok"
          /\ UNCHANGED metricsKey
  /\ timerElapsed' = FALSE
  /\ UNCHANGED <<keyFile, cancelled, wfaErr, chk, metricsPosts>>
  /\ UNCHANGED enrollVars
  /\ logged' = (~has_key(keyFile) /\
                 set_state_logs(state, Error("Device approved but no API key found")))
  /\ UNCHANGED auxVars

\* wait_for_approval returned Err
ApprovalFailed ==
  /\ mpc = "approval_err"
  /\ state' = set_state(state, Error("Enrollment failed: " \o wfaErr))
  /\ mpc' = "start_ok"
  /\ UNCHANGED <<keyFile, cancelled, timerElapsed, wfaErr, chk, metricsKey, metricsPosts>>
  /\ UNCHANGED enrollVars
  /\ logged' = set_state_logs(state, Error("Enrollment failed: " \o wfaErr))
  /\ UNCHANGED auxVars

(***************************************************************************)
(* main.rs: agent.start() returned an error.  The error is logged and the   *)
(* tray's status item retitled; Agent.state is not written.                 *)
(***************************************************************************)
MainStartFailed ==
  /\ mpc = "start_err"
  /\ mpc' = "start_err_shown"
  /\ UNCHANGED <<state, keyFile, cancelled, timerElapsed, wfaErr, chk, metricsKey,
                 metricsPosts>>
  /\ UNCHANGED enrollVars
  /\ logged' = FALSE
  /\ UNCHANGED auxVars

(***************************************************************************)
(* metrics.rs: MetricsCollector::start_metrics_loop                         *)
(***************************************************************************)
MetricsWake ==
  /\ mpc = "metrics_wait"
  /\ \E branch \in select(cancelled, timerElapsed) :
       mpc' = IF branch = "cancelled" THEN "start_ok" ELSE "metrics_tick"
  /\ timerElapsed' = FALSE
  /\ UNCHANGED <<state, keyFile, cancelled, wfaErr, chk, metricsKey, metricsPosts>>
  /\ UNCHANGED enrollVars
  /\ logged' = FALSE
  /\ UNCHANGED auxVars

\* collect_and_submit: one POST /api/metrics with X-Agent-Key: metricsKey;
\* whatever the answer, Ok(()) is returned and the loop selects again
MetricsTick ==
  /\ mpc = "metrics_tick"
  /\ metricsPosts < MaxMetricsPosts
  /\ metricsPosts' = metricsPosts + 1
  /\ mpc' = "metrics_wait"
  /\ timerElapsed' = FALSE
  /\ UNCHANGED <<state, keyFile, cancelled, wfaErr, chk, metricsKey>>
  /\ UNCHANGED enrollVars
  /\ logged' = FALSE
  /\ UNCHANGED auxVars

(***************************************************************************)
(* main.rs: the status monitor task and the tray's "install" handler,       *)
(* both through Agent::check_status                                         *)
(***************************************************************************)
MonitorCheck ==
  /\ chk["monitor"] = NoCheck
  /\ CheckStatus("monitor")
  /\ UNCHANGED <<state, cancelled, mpc, timerElapsed, wfaErr, metricsKey, metricsPosts>>
  /\ UNCHANGED enrollVars
  /\ logged' = FALSE
  /\ UNCHANGED auxVars

MonitorApply ==
  /\ chk["monitor"] # NoCheck
  /\ state' = agent_check_status(chk["monitor"].result, state)
  /\ chk' = [chk EXCEPT !["monitor"] = NoCheck]
  /\ UNCHANGED <<keyFile, cancelled, mpc, timerElapsed, wfaErr, metricsKey, metricsPosts>>
  /\ UNCHANGED enrollVars
  /\ logged' = agent_check_status_logs(chk["monitor"].result, state)
  /\ UNCHANGED auxVars

InstallCheck ==
  /\ chk["install"] = NoCheck
  /\ CheckStatus("install")
  /\ UNCHANGED <<state, cancelled, mpc, timerElapsed, wfaErr, metricsKey, metricsPosts>>
  /\ UNCHANGED enrollVars
  /\ logged' = FALSE
  /\ UNCHANGED auxVars

InstallApply ==
  /\ chk["install"] # NoCheck
  /\ state' = agent_check_status(chk["install"].result, state)
  /\ chk' = [chk EXCEPT !["install"] = NoCheck]
  /\ UNCHANGED <<keyFile, cancelled, mpc, timerElapsed, wfaErr, metricsKey, metricsPosts>>
  /\ UNCHANGED enrollVars
  /\ logged' = agent_check_status_logs(chk["install"].result, state)
  /\ UNCHANGED auxVars

(***************************************************************************)
(* main.rs: the tray's "quit" handler calls Agent::shutdown                 *)
(***************************************************************************)
Quit ==
  /\ ~cancelled
  /\ cancelled' = TRUE
  /\ UNCHANGED <<state, keyFile, mpc, timerElapsed, wfaErr, chk, metricsKey, metricsPosts>>
  /\ UNCHANGED enrollVars
  /\ logged' = FALSE
  /\ UNCHANGED auxVars

Next ==
  \/ Start
  \/ EnrollSend
  \/ EnrollHandle
  \/ TimerFires
  \/ EnrollWake
  \/ SetPendingApproval
  \/ ApprovalWake
  \/ ApprovalPoll
  \/ ApprovalHandle
  \/ ApprovedSetActive
  \/ ApprovedGetKey
  \/ ApprovalFailed
  \/ MainStartFailed
  \/ MetricsWake
  \/ MetricsTick
  \/ MonitorCheck
  \/ MonitorApply
  \/ InstallCheck
  \/ InstallApply
  \/ Quit

Spec == Init /\ [][Next]_vars

(***************************************************************************)
(* The same program under the scheduling of the tokio runtime: a spawned    *)
(* task that can take a step eventually takes one, a sleep eventually       *)
(* elapses, and a select! that is entered again and again with its          *)
(* cancellation branch ready eventually takes that branch.  Nothing obliges *)
(* the user to click "install" or "quit".                                   *)
(***************************************************************************)
\* enroll handles the answer it holds: the step of EnrollHandle told by the
\* position it leaves and the positions it can reach (no other action moves
\* the task away from "enroll_resp")
EnrollAnswerHandled ==
  /\ mpc = "enroll_resp"
  /\ mpc' \in {"enroll_ok", "start_err", "enroll_wait"}
  /\ enrollOutcome' \in {"", "accepted", "rejected"}
  /\ waits' \in {waits, Append(waits, retry_delay(attempt))}
  /\ timerElapsed' \in BOOLEAN
  /\ UNCHANGED <<state, keyFile, cancelled, attempt, enrollResp, enrollReqs, wfaErr,
                 chk, metricsKey, metricsPosts>>
  /\ logged' = FALSE
  /\ UNCHANGED auxVars

\* the task that runs Agent::start
StartTask ==
  \/ Start \/ EnrollSend \/ EnrollAnswerHandled \/ EnrollWake \/ SetPendingApproval
  \/ ApprovalWake \/ ApprovalPoll \/ ApprovalHandle \/ ApprovedSetActive
  \/ ApprovedGetKey \/ ApprovalFailed \/ MainStartFailed \/ MetricsWake \/ MetricsTick

\* the status monitor task
MonitorTask == MonitorCheck \/ MonitorApply

\* a select! completes through its cancellation branch
CancelBranch ==
  \/ EnrollWake /\ mpc' = "start_err"
  \/ ApprovalWake /\ mpc' = "approval_err"
  \/ MetricsWake /\ mpc' = "start_ok"

SpecFair ==
  /\ Spec
  /\ WF_vars(StartTask)
  /\ WF_vars(MonitorTask)
  /\ WF_vars(InstallApply)
  /\ WF_vars(TimerFires)
  /\ SF_vars(CancelBranch)

(***************************************************************************)
(* runtime_config.rs and main.rs: the server URL override across runs.      *)
(* A run loads config.json at setup, the set_server_url command overwrites  *)
(* the override in memory and saves it, and the next launch constructs the  *)
(* agent anew.  The status monitor runs meanwhile.                          *)
(***************************************************************************)
ServerUrls == {"https://a.example", "https://b.example"}

ConfigSaveOutcomes == {"ok", "err"}

\* RuntimeConfig::load, with main's unwrap_or_default: the override in the
\* file, none when there is no file
load(file) == IF file = NoFile THEN NoUrl ELSE file

\* RuntimeConfig::save: [file: config.json afterwards, ok]
save(file, url, io) ==
  IF io = "ok" THEN [file |-> <<url>>, ok |-> TRUE] ELSE [file |-> file, ok |-> FALSE]

\* the set_server_url command
SetServerUrl ==
  /\ \E url \in ServerUrls : \E io \in ConfigSaveOutcomes :
       /\ serverUrl' = <<url>>
       /\ configFile' = save(configFile, url, io).file
  /\ logged' = FALSE
  /\ UNCHANGED <<state, keyFile, cancelled, mpc, timerElapsed, wfaErr, chk, metricsKey,
                 metricsPosts, launchUrl>>
  /\ UNCHANGED enrollVars
  /\ UNCHANGED updVars
  /\ UNCHANGED ioVars
  /\ UNCHANGED hostVars

\* the process is launched again: setup loads the runtime configuration and
\* Agent::new constructs the agent over the files the last run left
Relaunch ==
  /\ serverUrl' = load(configFile)
  /\ launchUrl' = load(configFile)
  /\ state' = initial_state(keyFile)
  /\ chk' = [c \in Callers |-> NoCheck]
  /\ cancelled' = FALSE
  /\ mpc' = "start"
  /\ logged' = FALSE
  /\ UNCHANGED <<keyFile, configFile, timerElapsed, wfaErr, metricsKey, metricsPosts>>
  /\ UNCHANGED enrollVars
  /\ UNCHANGED updVars
  /\ UNCHANGED ioVars
  /\ UNCHANGED hostVars

InitUrl ==
  /\ keyFile \in InitialFiles
  /\ state = initial_state(keyFile)
  /\ cancelled = FALSE
  /\ mpc = "start"
  /\ timerElapsed = FALSE
  /\ attempt = 0
  /\ enrollResp = NoResponse
  /\ enrollReqs = 0
  /\ waits = <<>>
  /\ enrollOutcome = ""
  /\ wfaErr = ""
  /\ chk = [c \in Callers |-> NoCheck]
  /\ metricsKey = NoKey
  /\ metricsPosts = 0
  /\ logged = FALSE
  /\ storeOp = <<>>
  /\ submitLog = <<>>
  /\ HostIdle
  /\ configFile \in {NoFile} \cup {<<u>> : u \in ServerUrls}
  /\ serverUrl = load(configFile)
  /\ launchUrl = load(configFile)
  /\ UpdaterIdle

NextUrl ==
  \/ SetServerUrl
  \/ Relaunch
  \/ MonitorCheck
  \/ MonitorApply

SpecUrl == InitUrl /\ [][NextUrl]_vars

(***************************************************************************)
(* updater.rs: apply_pending_update over the four paths it works on.        *)
(* A file is NoFile or <<bytes>>.  The marker names the staged path         *)
(* (<<"staged">>), names a path where nothing is (<<"absent">>), or does    *)
(* not parse as a PendingUpdate (<<"garbage">>).                            *)
(***************************************************************************)
FsOutcomes == {"ok", "err"}

\* what the operating system answers to each operation of one call
UpdateIo ==
  [current_exe : FsOutcomes, rm_backup : FsOutcomes, mv_backup : FsOutcomes,
   mv_new : FsOutcomes, mv_rollback : FsOutcomes, rm_marker : FsOutcomes,
   rm_staged : FsOutcomes]

\* std::fs::remove_file(path).ok(): the file afterwards
remove_file(file, io) == IF io = "ok" THEN NoFile ELSE file

\* std::fs::rename(from, to): [from, to, ok]; a successful rename replaces
\* whatever is at the destination, a failed one changes neither path
rename(from, to, io) ==
  IF io = "ok" /\ from # NoFile
  THEN [from |-> NoFile, to |-> from, ok |-> TRUE]
  ELSE [from |-> from, to |-> to, ok |-> FALSE]

\* new_exe_path.exists(): the marker names the staged path and a file is there
new_exe_exists(fs) == fs.marker = <<"staged">> /\ fs.staged # NoFile

\* Updater::apply_pending_update: the files afterwards and the value returned
\* ("true", "false", or "err" for Err)
apply_pending_update(fs, io) ==
  IF fs.marker = NoFile THEN [fs |-> fs, result |-> "false"]
  ELSE IF fs.marker = <<"garbage">> THEN [fs |-> fs, result |-> "err"]
  ELSE IF ~new_exe_exists(fs)
  THEN [fs |-> [fs EXCEPT !.marker = remove_file(fs.marker, io.rm_marker)],
        result |-> "false"]
  ELSE IF io.current_exe = "err" THEN [fs |-> fs, result |-> "err"]
  ELSE
    LET b1 == IF fs.backup # NoFile THEN remove_file(fs.backup, io.rm_backup)
              ELSE fs.backup
        r2 == rename(fs.current, b1, io.mv_backup)
        r3 == rename(fs.staged, r2.from, io.mv_new)
        rb == rename(r2.to, r3.to, io.mv_rollback)
    IN IF ~r2.ok
       THEN [fs |-> [marker |-> remove_file(fs.marker, io.rm_marker),
                     staged |-> remove_file(fs.staged, io.rm_staged),
                     current |-> fs.current, backup |-> b1],
             result |-> "false"]
       ELSE IF ~r3.ok
       THEN [fs |-> [marker |-> remove_file(fs.marker, io.rm_marker),
                     staged |-> fs.staged,
                     current |-> rb.to, backup |-> rb.from],
             result |-> "false"]
       ELSE [fs |-> [marker |-> remove_file(fs.marker, io.rm_marker),
                     staged |-> r3.from,
                     current |-> r3.to, backup |-> r2.to],
             result |-> "true"]

\* the four paths as one value
update_files == [marker |-> marker, staged |-> staged, current |-> currentExe,
                 backup |-> backupExe]

\* one call of apply_pending_update at start-up
ApplyPendingUpdate ==
  /\ applyResult = "none"
  /\ \E io \in UpdateIo :
       LET r == apply_pending_update(update_files, io)
       IN /\ marker' = r.fs.marker
          /\ staged' = r.fs.staged
          /\ currentExe' = r.fs.current
          /\ backupExe' = r.fs.backup
          /\ applyResult' = r.result
          /\ applyIo' = <<io>>
  /\ UNCHANGED <<downloadLog, updateCheck>>
  /\ UNCHANGED <<state, keyFile, cancelled, mpc, timerElapsed, wfaErr, chk, metricsKey,
                 metricsPosts, logged>>
  /\ UNCHANGED enrollVars
  /\ UNCHANGED urlVars
  /\ UNCHANGED ioVars
  /\ UNCHANGED hostVars

InitUpdate ==
  /\ state = NotEnrolled
  /\ keyFile = NoFile
  /\ cancelled = FALSE
  /\ mpc = "start"
  /\ timerElapsed = FALSE
  /\ attempt = 0
  /\ enrollResp = NoResponse
  /\ enrollReqs = 0
  /\ waits = <<>>
  /\ enrollOutcome = ""
  /\ wfaErr = ""
  /\ chk = [c \in Callers |-> NoCheck]
  /\ metricsKey = NoKey
  /\ metricsPosts = 0
  /\ logged = FALSE
  /\ storeOp = <<>>
  /\ submitLog = <<>>
  /\ HostIdle
  /\ UrlIdle
  /\ marker \in {NoFile, <<"staged">>, <<"absent">>, <<"garbage">>}
  /\ staged \in {NoFile, <<"new">>}
  /\ currentExe = <<"old">>
  /\ backupExe \in {NoFile, <<"older">>}
  /\ applyResult = "none"
  /\ applyIo = <<>>
  /\ downloadLog = <<>>
  /\ updateCheck = <<>>

NextUpdate == ApplyPendingUpdate

SpecUpdate == InitUpdate /\ [][NextUpdate]_vars

(***************************************************************************)
(* updater.rs: download_update and apply_pending_update from a clean        *)
(* install, over any number of runs.  The staged file holds <<"new">> when  *)
(* it is the whole asset (its size is the advertised one) and <<"part">>    *)
(* when it is not.                                                          *)
(***************************************************************************)
\* the step of download_update that fails, if any
DownloadFaults ==
  {"none", "create_dir", "send", "status", "create", "stream", "flush", "metadata",
   "write_marker_open", "write_marker_write"}

\* what the stream delivers when it ends without an error
DownloadBodies == {"new", "part"}

DownloadInputs == [fault : DownloadFaults, body : DownloadBodies, rm_staged : FsOutcomes]

\* Updater::download_update with info.size Some (check_for_update always
\* fills it): the marker and the staged file afterwards, and Ok or Err
download_update(fs, in) ==
  IF in.fault \in {"create_dir", "send", "status", "create"}
  THEN [marker |-> fs.marker, staged |-> fs.staged, ok |-> FALSE]
  ELSE IF in.fault \in {"stream", "flush"}
  THEN [marker |-> fs.marker, staged |-> <<"part">>, ok |-> FALSE]
  ELSE IF in.fault = "metadata"
  THEN [marker |-> fs.marker, staged |-> <<in.body>>, ok |-> FALSE]
  ELSE IF in.body # "new"
  THEN [marker |-> fs.marker, staged |-> remove_file(<<in.body>>, in.rm_staged),
        ok |-> FALSE]
  ELSE IF in.fault = "write_marker_open"
  THEN [marker |-> fs.marker, staged |-> <<"new">>, ok |-> FALSE]
  ELSE IF in.fault = "write_marker_write"
  THEN [marker |-> <<"garbage">>, staged |-> <<"new">>, ok |-> FALSE]
  ELSE [marker |-> <<"staged">>, staged |-> <<"new">>, ok |-> TRUE]

\* the call reaches the size check and finds a size that is not the
\* advertised one
size_mismatch(in) ==
  /\ in.fault \notin {"create_dir", "send", "status", "create", "stream", "flush",
                      "metadata"}
  /\ in.body # "new"

\* one download_update call (from check_and_download or update_now)
DownloadUpdate ==
  /\ downloadLog = <<>>
  /\ \E in \in DownloadInputs :
       LET r == download_update(update_files, in)
       IN /\ marker' = r.marker
          /\ staged' = r.staged
          /\ downloadLog' = <<[in |-> in, ok |-> r.ok]>>
  /\ UNCHANGED <<state, keyFile, cancelled, mpc, timerElapsed, wfaErr, chk, metricsKey,
                 metricsPosts, logged, currentExe, backupExe, applyResult, applyIo,
                 updateCheck>>
  /\ UNCHANGED enrollVars
  /\ UNCHANGED urlVars
  /\ UNCHANGED ioVars
  /\ UNCHANGED hostVars

\* the process ends and the binary at the running-binary path is launched
UpdaterRestart ==
  /\ applyResult # "none" \/ downloadLog # <<>>
  /\ currentExe # NoFile
  /\ applyResult' = "none"
  /\ applyIo' = <<>>
  /\ downloadLog' = <<>>
  /\ UNCHANGED <<state, keyFile, cancelled, mpc, timerElapsed, wfaErr, chk, metricsKey,
                 metricsPosts, logged, marker, staged, currentExe, backupExe,
                 updateCheck>>
  /\ UNCHANGED enrollVars
  /\ UNCHANGED urlVars
  /\ UNCHANGED ioVars
  /\ UNCHANGED hostVars

\* a clean install: nothing staged, no marker, no backup
InitUpdater ==
  /\ state = NotEnrolled
  /\ keyFile = NoFile
  /\ cancelled = FALSE
  /\ mpc = "start"
  /\ timerElapsed = FALSE
  /\ attempt = 0
  /\ enrollResp = NoResponse
  /\ enrollReqs = 0
  /\ waits = <<>>
  /\ enrollOutcome = ""
  /\ wfaErr = ""
  /\ chk = [c \in Callers |-> NoCheck]
  /\ metricsKey = NoKey
  /\ metricsPosts = 0
  /\ logged = FALSE
  /\ storeOp = <<>>
  /\ submitLog = <<>>
  /\ HostIdle
  /\ UrlIdle
  /\ UpdaterIdle

NextUpdater ==
  \/ DownloadUpdate
  \/ ApplyPendingUpdate
  \/ UpdaterRestart

SpecUpdater == InitUpdater /\ [][NextUpdater]_vars

(***************************************************************************)
(* updater.rs: check_for_update.  semver::Version::parse and the order of   *)
(* Version, for versions without build metadata.                            *)
(***************************************************************************)
Digits == "0123456789"

\* the characters of a pre-release identifier, in ASCII order
IdentChars == "-0123456789ABCDEFGHIJKLMNOPQRSTUVWXYZabcdefghijklmnopqrstuvwxyz"

IndexIn(alphabet, c) ==
  IF \E i \in 1..Len(alphabet) : CharAt(alphabet, i) = c
  THEN CHOOSE i \in 1..Len(alphabet) : CharAt(alphabet, i) = c
  ELSE 0

RECURSIVE all_in(_, _)
all_in(alphabet, s) ==
  \/ Len(s) = 0
  \/ IndexIn(alphabet, CharAt(s, 1)) > 0 /\ all_in(alphabet, SubSeq(s, 2, Len(s)))

\* str::trim_start_matches('v'): every leading 'v' is dropped
RECURSIVE trim_start_matches_v(_)
trim_start_matches_v(s) ==
  IF Len(s) > 0 /\ CharAt(s, 1) = "v"
  THEN trim_start_matches_v(SubSeq(s, 2, Len(s))) ELSE s

\* position of the first `sep` in s, 0 when there is none
RECURSIVE find_from(_, _, _)
find_from(s, sep, i) ==
  IF i > Len(s) THEN 0
  ELSE IF CharAt(s, i) = sep THEN i
  ELSE find_from(s, sep, i + 1)

find(s, sep) == find_from(s, sep, 1)

RECURSIVE digits_value(_, _)
digits_value(s, acc) ==
  IF Len(s) = 0 THEN acc
  ELSE digits_value(SubSeq(s, 2, Len(s)), 10 * acc + IndexIn(Digits, CharAt(s, 1)) - 1)

\* a numeric component: digits only, no leading zero; -1 when it is not one
parse_numeric(s) ==
  IF Len(s) = 0 \/ ~all_in(Digits, s) THEN -1
  ELSE IF Len(s) > 1 /\ CharAt(s, 1) = "0" THEN -1
  ELSE digits_value(s, 0)

\* the dot-separated identifiers of a pre-release
RECURSIVE identifiers(_)
identifiers(s) ==
  LET d == find(s, ".") IN
    IF d = 0 THEN <<s>>
    ELSE <<SubSeq(s, 1, d - 1)>> \o identifiers(SubSeq(s, d + 1, Len(s)))

valid_identifier(id) ==
  /\ Len(id) > 0
  /\ all_in(IdentChars, id)
  /\ all_in(Digits, id) => parse_numeric(id) >= 0

InvalidVersion == [ok |-> FALSE, major |-> 0, minor |-> 0, patch |-> 0, pre |-> <<>>]

\* semver::Version::parse
Version_parse(s) ==
  LET h == find(s, "-")
      core == IF h = 0 THEN s ELSE SubSeq(s, 1, h - 1)
      pre == IF h = 0 THEN <<>> ELSE identifiers(SubSeq(s, h + 1, Len(s)))
      d1 == find(core, ".")
      rest == SubSeq(core, d1 + 1, Len(core))
      d2 == find(rest, ".")
      major == parse_numeric(SubSeq(core, 1, d1 - 1))
      minor == parse_numeric(SubSeq(rest, 1, d2 - 1))
      patch == parse_numeric(SubSeq(rest, d2 + 1, Len(rest)))
  IN IF d1 = 0 \/ d2 = 0 THEN InvalidVersion
     ELSE IF major < 0 \/ minor < 0 \/ patch < 0 THEN InvalidVersion
     ELSE IF \E i \in 1..Len(pre) : ~valid_identifier(pre[i]) THEN InvalidVersion
     ELSE [ok |-> TRUE, major |-> major, minor |-> minor, patch |-> patch, pre |-> pre]

\* byte-wise comparison of two strings: -1, 0 or 1
RECURSIVE cmp_str(_, _)
cmp_str(a, b) ==
  IF Len(a) = 0 /\ Len(b) = 0 THEN 0
  ELSE IF Len(a) = 0 THEN -1
  ELSE IF Len(b) = 0 THEN 1
  ELSE LET x == IndexIn(IdentChars, CharAt(a, 1))
           y == IndexIn(IdentChars, CharAt(b, 1))
       IN IF x < y THEN -1
          ELSE IF x > y THEN 1
          ELSE cmp_str(SubSeq(a, 2, Len(a)), SubSeq(b, 2, Len(b)))

cmp_int(a, b) == IF a < b THEN -1 ELSE IF a > b THEN 1 ELSE 0

\* two pre-release identifiers: numeric ones by value and below the others
cmp_identifier(a, b) ==
  IF all_in(Digits, a) /\ all_in(Digits, b) THEN cmp_int(parse_numeric(a), parse_numeric(b))
  ELSE IF all_in(Digits, a) THEN -1
  ELSE IF all_in(Digits, b) THEN 1
  ELSE cmp_str(a, b)

RECURSIVE cmp_identifiers(_, _)
cmp_identifiers(p, q) ==
  IF Len(p) = 0 /\ Len(q) = 0 THEN 0
  ELSE IF Len(p) = 0 THEN -1
  ELSE IF Len(q) = 0 THEN 1
  ELSE IF cmp_identifier(p[1], q[1]) # 0 THEN cmp_identifier(p[1], q[1])
  ELSE cmp_identifiers(Tail(p), Tail(q))

\* Prerelease::cmp: no pre-release is above every pre-release
cmp_pre(p, q) ==
  IF Len(p) = 0 /\ Len(q) = 0 THEN 0
  ELSE IF Len(p) = 0 THEN 1
  ELSE IF Len(q) = 0 THEN -1
  ELSE cmp_identifiers(p, q)

\* a comparison that orders the numeric components as text
Version_cmp_as_text(a, b) ==
  IF a.major # b.major THEN cmp_str(ToString(a.major), ToString(b.major))
  ELSE IF a.minor # b.minor THEN cmp_str(ToString(a.minor), ToString(b.minor))
  ELSE IF a.patch # b.patch THEN cmp_str(ToString(a.patch), ToString(b.patch))
  ELSE cmp_pre(a.pre, b.pre)

\* Version::cmp: major, minor, patch, then the pre-release
Version_cmp(a, b) ==
  IF a.major # b.major THEN cmp_int(a.major, b.major)
  ELSE IF a.minor # b.minor THEN cmp_int(a.minor, b.minor)
  ELSE IF a.patch # b.patch THEN cmp_int(a.patch, b.patch)
  ELSE cmp_pre(a.pre, b.pre)

\* what the GET of the latest release can end in
ReleaseFetches == {"ok", "send_err", "status_err", "json_err"}

\* release.tag_name
ReleaseTags ==
  {"v1.0.1", "v1.0.0", "v1.1.0", "v2.0.0", "v0.9.0", "1.0.10", "vv1.0.1", "V1.0.1",
   "v1.0", "v1.0.0-rc.2", "latest"}

\* AGENT_VERSION of the build
AgentVersions == {"1.0.0", "1.0.9", "1.9.9", "1.0.0-rc.1"}

CheckInputs ==
  [fetch : ReleaseFetches, tag : ReleaseTags, has_exe : BOOLEAN, current : AgentVersions]

\* Updater::check_for_update: "some", "none", or "err" for Err
check_for_update(in) ==
  LET current == Version_parse(in.current)
      remote == Version_parse(trim_start_matches_v(in.tag))
  IN IF in.fetch # "ok" THEN "err"
     ELSE IF ~current.ok THEN "err"
     ELSE IF ~remote.ok THEN "none"
     ELSE IF Version_cmp(remote, current) <= 0 THEN "none"
     ELSE IF ~in.has_exe THEN "err"
     ELSE "some"

\* one check_for_update call
CheckForUpdate ==
  /\ updateCheck = <<>>
  /\ \E in \in CheckInputs :
       updateCheck' = <<[in |-> in, result |-> check_for_update(in)]>>
  /\ UNCHANGED <<state, keyFile, cancelled, mpc, timerElapsed, wfaErr, chk, metricsKey,
                 metricsPosts, logged, marker, staged, currentExe, backupExe,
                 applyResult, applyIo, downloadLog>>
  /\ UNCHANGED enrollVars
  /\ UNCHANGED urlVars
  /\ UNCHANGED ioVars
  /\ UNCHANGED hostVars

NextCheck == CheckForUpdate

\* check_for_update on its own, from a clean install
SpecCheck == InitUpdater /\ [][NextCheck]_vars

(***************************************************************************)
(* storage.rs: Storage called directly, as its tests do                     *)
(***************************************************************************)
\* credentials handed to save_key
StoreKeys == {"k1", " k2\n", "\tk3 ", "a b", ""}

ReadOutcomes == {"ok", "err"}

StorageFrame ==
  /\ UNCHANGED <<state, cancelled, mpc, timerElapsed, wfaErr, chk, metricsKey,
                 metricsPosts, submitLog>>
  /\ UNCHANGED enrollVars
  /\ UNCHANGED urlVars
  /\ UNCHANGED updVars
  /\ UNCHANGED hostVars
  /\ logged' = FALSE

SaveKey ==
  /\ \E key \in StoreKeys : \E io \in SaveOutcomes :
       LET r == save_key(keyFile, key, io)
       IN /\ keyFile' = r.file
          /\ storeOp' = <<[op |-> "save", key |-> key, had |-> has_key(keyFile),
                           ok |-> r.ok, ret |-> ""]>>
  /\ StorageFrame

\* read_key: Err when the file cannot be read, else its trimmed content
ReadKey ==
  /\ \E io \in ReadOutcomes :
       LET ok == has_key(keyFile) /\ io = "ok"
       IN storeOp' = <<[op |-> "read", key |-> "", had |-> has_key(keyFile),
                        ok |-> ok, ret |-> IF ok THEN read_key(keyFile) ELSE ""]>>
  /\ UNCHANGED keyFile
  /\ StorageFrame

DeleteKey ==
  /\ \E io \in DeleteOutcomes :
       LET r == delete_key(keyFile, io)
       IN /\ keyFile' = r.file
          /\ storeOp' = <<[op |-> "delete", key |-> "", had |-> has_key(keyFile),
                           ok |-> r.ok, ret |-> ""]>>
  /\ StorageFrame

NextStorage ==
  \/ SaveKey
  \/ ReadKey
  \/ DeleteKey

\* a Storage over a path that holds a credential or nothing
SpecStorage == InitUrl /\ [][NextStorage]_vars

(***************************************************************************)
(* metrics.rs: one tick of the metrics loop with the answer it gets         *)
(***************************************************************************)
UNAUTHORIZED == 401
TOO_MANY_REQUESTS == 429

\* what POST /api/metrics can end in: no response at all, or a status
SendError == [sent |-> FALSE, status |-> 0]

Answered(status) == [sent |-> TRUE, status |-> status]

SubmitAnswers ==
  {SendError} \cup {Answered(s) : s \in {200, 204, UNAUTHORIZED, TOO_MANY_REQUESTS, 500}}

\* whether the Netdata fetches of collect_metrics gave cpu or memory figures
NetdataStates == {"up", "down"}

\* MetricsCollector::submit_metrics: "Ok" or "Err", and whether it warns
submit_metrics(answer) ==
  IF ~answer.sent THEN [ret |-> "Err", warned |-> FALSE]
  ELSE IF ~is_success(answer.status) THEN [ret |-> "Err", warned |-> TRUE]
  ELSE [ret |-> "Ok", warned |-> FALSE]

\* a collect_and_submit that hands a failed submission to its caller
collect_and_submit_propagating(netdata, answer) ==
  [submit |-> submit_metrics(answer).ret,
   ret |-> submit_metrics(answer).ret,
   log |-> IF submit_metrics(answer).ret = "Err" THEN "warn" ELSE "info"]

\* MetricsCollector::collect_and_submit: what submit_metrics returned, what
\* it returns itself, and the level of the line it logs
collect_and_submit(netdata, answer) ==
  LET submitted == submit_metrics(answer).ret
  IN [submit |-> submitted,
      ret |-> "Ok",
      log |-> IF submitted = "Err" THEN "warn"
              ELSE IF netdata = "up" THEN "info" ELSE "warn"]

\* a loop that ends at the first tick whose submission failed
after_tick_stopping_on_failure(tick) ==
  IF tick.submit = "Err" THEN "start_ok" ELSE "metrics_wait"

\* start_metrics_loop after a tick: Ok or Err, the loop selects again
after_tick(tick) == "metrics_wait"

\* one tick: collect_and_submit with the answer it got, then the match of
\* start_metrics_loop
CollectAndSubmit ==
  /\ mpc = "metrics_tick"
  /\ metricsPosts < MaxMetricsPosts
  /\ metricsPosts' = metricsPosts + 1
  /\ \E netdata \in NetdataStates : \E answer \in SubmitAnswers :
       LET tick == collect_and_submit(netdata, answer)
       IN /\ submitLog' = <<[netdata |-> netdata, answer |-> answer, tick |-> tick,
                             error_logged |-> tick.ret = "Err"]>>
          /\ mpc' = after_tick(tick)
  /\ timerElapsed' = FALSE
  /\ UNCHANGED <<state, keyFile, cancelled, wfaErr, chk, metricsKey, storeOp>>
  /\ UNCHANGED enrollVars
  /\ logged' = FALSE
  /\ UNCHANGED urlVars
  /\ UNCHANGED updVars
  /\ UNCHANGED hostVars

\* an Active agent whose start has just entered the metrics loop
InitMetrics ==
  /\ keyFile = <<"k0">>
  /\ state = Active
  /\ cancelled = FALSE
  /\ mpc = "metrics_wait"
  /\ timerElapsed = FALSE
  /\ attempt = 0
  /\ enrollResp = NoResponse
  /\ enrollReqs = 0
  /\ waits = <<>>
  /\ enrollOutcome = ""
  /\ wfaErr = ""
  /\ chk = [c \in Callers |-> NoCheck]
  /\ metricsKey = <<"k0">>
  /\ metricsPosts = 0
  /\ logged = FALSE
  /\ storeOp = <<>>
  /\ submitLog = <<>>
  /\ HostIdle
  /\ UrlIdle
  /\ UpdaterIdle

NextMetrics ==
  \/ TimerFires
  \/ MetricsWake
  \/ CollectAndSubmit
  \/ Quit

SpecMetrics == InitMetrics /\ [][NextMetrics]_vars

(***************************************************************************)
(* metrics.rs: collect_metrics and the Netdata answers it reads             *)
(***************************************************************************)
\* Option<T>
None == <<>>
Some(x) == <<x>>

\* how a GET to the Netdata daemon can go: no response, a status, and a body
\* that is JSON of the expected shape or not.  A NetdataDataResponse has an
\* optional view (with optional dimensions) and an optional result, whose
\* rows may be empty; a NetdataInfo has optional alarms.
NetdataViews == {"none", "no_dimensions", "dimensions"}
NetdataResults == {"none", "empty", "rows"}

Exchange(sent, status, json, view, result, alarms) ==
  [sent |-> sent, status |-> status, json |-> json, view |-> view,
   result |-> result, alarms |-> alarms]

FailedExchanges ==
  {Exchange(FALSE, 0, FALSE, "none", "none", FALSE),
   Exchange(TRUE, 500, TRUE, "dimensions", "rows", TRUE),
   Exchange(TRUE, 200, FALSE, "none", "none", FALSE)}

DataExchanges ==
  FailedExchanges \cup
  {Exchange(TRUE, 200, TRUE, v, r, FALSE) : v \in NetdataViews, r \in NetdataResults}

InfoExchanges ==
  FailedExchanges \cup {Exchange(TRUE, 200, TRUE, "none", "none", a) : a \in BOOLEAN}

\* fetch_system_info / fetch_context_data: Err, or Ok with the parsed body
fetch(x) ==
  IF ~x.sent THEN [ok |-> FALSE, data |-> x]
  ELSE IF ~is_success(x.status) THEN [ok |-> FALSE, data |-> x]
  ELSE IF ~x.json THEN [ok |-> FALSE, data |-> x]
  ELSE [ok |-> TRUE, data |-> x]

\* the row the parsers read: data.result.as_ref()? and then .last()?
last_row(data) == IF data.result = "rows" THEN Some("row") ELSE None

\* data.view.as_ref()?.dimensions.as_ref()?
dimensions(data) == IF data.view = "dimensions" THEN Some("ids") ELSE None

parse_cpu_metrics(data) ==
  IF dimensions(data) = None \/ last_row(data) = None THEN None ELSE Some("CpuMetrics")

parse_memory_metrics(data) ==
  IF dimensions(data) = None \/ last_row(data) = None THEN None ELSE Some("MemoryMetrics")

parse_load_metrics(data) ==
  IF dimensions(data) = None \/ last_row(data) = None THEN None ELSE Some("LoadMetrics")

\* a parse_uptime that reads the view as the other parsers do
parse_uptime_reading_view(data) ==
  IF dimensions(data) = None \/ last_row(data) = None THEN None ELSE Some("UptimeMetrics")

parse_uptime(data) ==
  IF last_row(data) = None THEN None ELSE Some("UptimeMetrics")

\* the build version and the two inputs that are not requests
CARGO_PKG_VERSION == "1.0.0"
CollectorHostnames == {"host-a"}
Timestamps == {"2024-01-01T00:00:00+00:00"}

CollectInputs ==
  [hostname : CollectorHostnames, now : Timestamps, info : InfoExchanges,
   cpu : DataExchanges, ram : DataExchanges, load : DataExchanges,
   uptime : DataExchanges]

\* MetricsCollector::collect_metrics
collect_metrics(in) ==
  LET info == fetch(in.info)
      cpu == fetch(in.cpu)
      ram == fetch(in.ram)
      loadavg == fetch(in.load)
      uptime == fetch(in.uptime)
  IN [hostname |-> in.hostname,
      timestamp |-> in.now,
      agent_version |-> CARGO_PKG_VERSION,
      system_info |-> IF info.ok THEN Some("SystemInfo") ELSE None,
      alerts |-> IF info.ok /\ info.data.alarms THEN Some("AlertsSummary") ELSE None,
      cpu |-> IF cpu.ok THEN parse_cpu_metrics(cpu.data) ELSE None,
      raw_cpu |-> IF cpu.ok THEN Some("raw") ELSE None,
      memory |-> IF ram.ok THEN parse_memory_metrics(ram.data) ELSE None,
      raw_ram |-> IF ram.ok THEN Some("raw") ELSE None,
      load |-> IF loadavg.ok THEN parse_load_metrics(loadavg.data) ELSE None,
      uptime |-> IF uptime.ok THEN parse_uptime(uptime.data) ELSE None,
      disks |-> None,
      network |-> None,
      processes |-> None]

\* one call of collect_metrics by the metrics loop
CollectMetrics ==
  /\ payload = <<>>
  /\ \E in \in CollectInputs : payload' = <<[in |-> in, out |-> collect_metrics(in)]>>
  /\ UNCHANGED <<state, keyFile, cancelled, mpc, timerElapsed, wfaErr, chk,
                 metricsKey, metricsPosts, logged, gathered, updLoop>>
  /\ UNCHANGED enrollVars
  /\ UNCHANGED urlVars
  /\ UNCHANGED updVars
  /\ UNCHANGED ioVars

NextCollect == CollectMetrics

SpecCollect == InitMetrics /\ [][NextCollect]_vars

(***************************************************************************)
(* sysinfo.rs: SystemInfo::gather and the hardware fingerprint              *)
(***************************************************************************)
\* gather calls explored on one host
MaxGathers == 2

\* usize::to_string: the decimal text of a number
RECURSIVE to_string(_)
to_string(n) ==
  IF n < 10 THEN CharAt(Digits, n + 1)
  ELSE to_string(n \div 10) \o CharAt(Digits, (n % 10) + 1)

\* the bytes the model feeds to the digest, and the value of each
ByteChars == IdentChars \o " :"

RECURSIVE weighted_sum(_, _, _)
weighted_sum(bytes, i, j) ==
  IF j > Len(bytes) THEN 0
  ELSE IndexIn(ByteChars, CharAt(bytes, j)) * (i + j) + weighted_sum(bytes, i, j + 1)

\* Sha256::finalize over everything fed by update, in order: 32 bytes.  The
\* compression function is not modelled; this mixing keeps the width, the
\* dependence on every byte and on their order, and that successive
\* updates hash as their concatenation.
Sha256(bytes) == [i \in 1..32 |-> (weighted_sum(bytes, i, 1) + i * Len(bytes)) % 256]

HexChars == "0123456789abcdef"

\* hex::encode: two lower-case hex characters per byte
RECURSIVE hex_encode(_)
hex_encode(bytes) ==
  IF bytes = <<>> THEN ""
  ELSE CharAt(HexChars, (Head(bytes) \div 16) + 1)
         \o CharAt(HexChars, (Head(bytes) % 16) + 1)
         \o hex_encode(Tail(bytes))

\* a host: what System::host_name answers, the brands of its CPUs, the
\* target_os of the build, and what the platform's command prints
\* (getmac, ifconfig en0, cat /sys/class/net/eth0/address)
HostNames == {None, Some("a"), Some("ab")}
CpuLists == {<<>>, <<"bc">>, <<"c", "c">>}
TargetOs == {"windows", "macos", "linux", "other"}
CommandOutputs == {"", "m:1"}

Hosts == [host_name : HostNames, cpus : CpuLists, target_os : TargetOs,
          stdout : CommandOutputs]

\* SystemInfo::generate_fingerprint; spawned is whether Command::output
\* returned Ok
generate_fingerprint(hostname, cpu_model, cpu_cores, target_os, spawned, stdout) ==
  LET material == IF target_os # "other" /\ spawned THEN stdout ELSE ""
  IN hex_encode(Sha256(hostname \o cpu_model \o to_string(cpu_cores) \o material))

\* SystemInfo::gather: the fields the fingerprint is made of, and it
gather(host, spawned) ==
  LET hostname == IF host.host_name = None THEN "unknown" ELSE host.host_name[1]
      cpu_model == IF host.cpus = <<>> THEN "Unknown CPU" ELSE host.cpus[1]
      cpu_cores == Len(host.cpus)
  IN [hostname |-> hostname, cpu_model |-> cpu_model, cpu_cores |-> cpu_cores,
      hardware_fingerprint |->
        generate_fingerprint(hostname, cpu_model, cpu_cores, host.target_os,
                             spawned, host.stdout)]

\* one call of SystemInfo::gather; every call of a behaviour is on the
\* same host
Gather ==
  /\ Len(gathered) < MaxGathers
  /\ \E host \in (IF gathered = <<>> THEN Hosts ELSE {gathered[1].host}) :
       \E spawned \in BOOLEAN :
         gathered' = Append(gathered, [host |-> host, spawned |-> spawned,
                                       info |-> gather(host, spawned)])
  /\ UNCHANGED <<state, keyFile, cancelled, mpc, timerElapsed, wfaErr, chk,
                 metricsKey, metricsPosts, logged, payload, updLoop>>
  /\ UNCHANGED enrollVars
  /\ UNCHANGED urlVars
  /\ UNCHANGED updVars
  /\ UNCHANGED ioVars

NextGather == Gather

SpecGather == InitUrl /\ [][NextGather]_vars

(***************************************************************************)
(* updater.rs: start_update_loop and check_and_download                     *)
(***************************************************************************)
\* check_and_download runs explored within one loop
MaxUpdateChecks == 4

\* what one check_and_download run meets: the result of check_for_update,
\* and of download_update and trigger_restart where they are reached
CheckAndDownloadInputs ==
  {[check |-> c, download |-> "", restart |-> ""] : c \in {"none", "err"}} \cup
  {[check |-> "some", download |-> "err", restart |-> ""]} \cup
  {[check |-> "some", download |-> "ok", restart |-> r] : r \in {"ok", "err"}}

\* Updater::check_and_download: only a failed trigger_restart is an Err
check_and_download(in) ==
  IF in.check = "some" /\ in.download = "ok" /\ in.restart = "err" THEN "Err" ELSE "Ok"

\* a loop that spawns check_and_download and goes on without awaiting it
begin_check_detached(loop) ==
  [loop EXCEPT !.pc = "select", !.elapsed = FALSE, !.checks = @ + 1, !.running = @ + 1]

\* self.check_and_download().await: the loop stands in the call until it
\* returns
begin_check(loop) ==
  [loop EXCEPT !.pc = "checking", !.checks = @ + 1, !.running = @ + 1]

\* a loop that gives up at the first check_and_download that failed
after_check_stopping_on_err(loop, in) ==
  [loop EXCEPT !.pc = IF check_and_download(in) = "Err" THEN "returned"
                      ELSE IF @ = "checking" THEN "select" ELSE @,
               !.elapsed = FALSE, !.running = @ - 1, !.last = <<in>>]

\* start_update_loop once check_and_download has returned: Ok or Err (only
\* logged), the next thing is the select with a new sleep
after_check(loop, in) ==
  [loop EXCEPT !.pc = IF @ = "checking" THEN "select" ELSE @,
               !.elapsed = FALSE, !.running = @ - 1, !.last = <<in>>]

\* a task that has just been handed start_update_loop, with updates
\* disabled (config.skip_updates) or not
UpdateLoops ==
  {[pc |-> "entry", skip |-> s, elapsed |-> FALSE, checks |-> 0, running |-> 0,
    last |-> <<>>] : s \in BOOLEAN}

UpdateLoopFrame ==
  /\ UNCHANGED <<state, keyFile, cancelled, mpc, timerElapsed, wfaErr, chk,
                 metricsKey, metricsPosts, logged, payload, gathered>>
  /\ UNCHANGED enrollVars
  /\ UNCHANGED urlVars
  /\ UNCHANGED updVars
  /\ UNCHANGED ioVars

\* the first statements of start_update_loop
UpdateLoopEnter ==
  /\ updLoop # <<>> /\ updLoop[1].pc = "entry"
  /\ updLoop' = <<IF updLoop[1].skip THEN [updLoop[1] EXCEPT !.pc = "returned"]
                  ELSE begin_check(updLoop[1])>>
  /\ UpdateLoopFrame

\* a check_and_download run returns
UpdateCheckDone ==
  /\ updLoop # <<>> /\ updLoop[1].running > 0
  /\ \E in \in CheckAndDownloadInputs : updLoop' = <<after_check(updLoop[1], in)>>
  /\ UpdateLoopFrame

\* the sleep of update_check_interval reaches its deadline
UpdateTimerFires ==
  /\ updLoop # <<>> /\ updLoop[1].pc = "select" /\ ~updLoop[1].elapsed
  /\ updLoop' = <<[updLoop[1] EXCEPT !.elapsed = TRUE]>>
  /\ UpdateLoopFrame

\* the select of the loop takes its cancellation branch
UpdateLoopExit ==
  /\ updLoop # <<>> /\ updLoop[1].pc = "select"
  /\ "cancelled" \in select(cancelled, updLoop[1].elapsed)
  /\ updLoop' = <<[updLoop[1] EXCEPT !.pc = "returned"]>>
  /\ UpdateLoopFrame

\* the select of the loop takes its sleep branch
UpdateLoopTick ==
  /\ updLoop # <<>> /\ updLoop[1].pc = "select"
  /\ "sleep" \in select(cancelled, updLoop[1].elapsed)
  /\ updLoop[1].checks < MaxUpdateChecks
  /\ updLoop' = <<begin_check(updLoop[1])>>
  /\ UpdateLoopFrame

\* a clean install whose updater task is about to run start_update_loop
InitUpdateLoop ==
  /\ state = NotEnrolled
  /\ keyFile = NoFile
  /\ cancelled = FALSE
  /\ mpc = "start"
  /\ timerElapsed = FALSE
  /\ attempt = 0
  /\ enrollResp = NoResponse
  /\ enrollReqs = 0
  /\ waits = <<>>
  /\ enrollOutcome = ""
  /\ wfaErr = ""
  /\ chk = [c \in Callers |-> NoCheck]
  /\ metricsKey = NoKey
  /\ metricsPosts = 0
  /\ logged = FALSE
  /\ storeOp = <<>>
  /\ submitLog = <<>>
  /\ payload = <<>> /\ gathered = <<>>
  /\ \E l \in UpdateLoops : updLoop = <<l>>
  /\ UrlIdle
  /\ UpdaterIdle

NextUpdateLoop ==
  \/ UpdateLoopEnter
  \/ UpdateCheckDone
  \/ UpdateTimerFires
  \/ UpdateLoopExit
  \/ UpdateLoopTick
  \/ Quit

\* the task is scheduled while it can take a step, and a select that finds
\* the token cancelled again and again does take that branch
SpecUpdateLoop ==
  /\ InitUpdateLoop
  /\ [][NextUpdateLoop]_vars
  /\ WF_vars(UpdateLoopEnter \/ UpdateCheckDone \/ UpdateLoopExit \/ UpdateLoopTick)
  /\ SF_vars(UpdateLoopExit)

(***************************************************************************)
(* The classifier on its own: enroll holding the answer to its first        *)
(* request, drawn from a larger set of statuses and bodies                  *)
(***************************************************************************)
ClassifyStatuses == {200, 202, 400, 401, 403, 404, 429, 500, 503}

ClassifyBodies ==
  {"", "Forbidden", "device banned", "Device BANNED", "unbanned", "ban ned",
   "Key Revoked.", "revoke", "REJECTED by admin", "reject", "Invalid fingerprint",
   "in valid", "Internal Server Error"}

InitClassify ==
  /\ keyFile = NoFile
  /\ state = initial_state(keyFile)
  /\ cancelled = FALSE
  /\ mpc = "enroll_resp"
  /\ timerElapsed = FALSE
  /\ attempt = 0
  /\ enrollResp \in {EnrollResponse("http", s, b) : s \in ClassifyStatuses, b \in ClassifyBodies}
  /\ enrollReqs = 1
  /\ waits = <<>>
  /\ enrollOutcome = ""
  /\ wfaErr = ""
  /\ chk = [c \in Callers |-> NoCheck]
  /\ metricsKey = NoKey
  /\ metricsPosts = 0
  /\ logged = FALSE
  /\ storeOp = <<>>
  /\ submitLog = <<>>
  /\ HostIdle
  /\ UrlIdle /\ UpdaterIdle

NextClassify == EnrollHandle

SpecClassify == InitClassify /\ [][NextClassify]_vars

(***************************************************************************)
(* Properties                                                               *)
(***************************************************************************)
Min(a, b) == IF a < b THEN a ELSE b

\* character c is the lower-case letter l or its upper-case form
SameLetter(c, l) ==
  \/ c = l
  \/ \E i \in 1..Len(LowerChars) : CharAt(LowerChars, i) = l /\ CharAt(UpperChars, i) = c

RejectionTokens == {"revoked", "rejected", "banned", "invalid"}

\* some token occurs in the body, letter case aside
BodyCarriesToken(body) ==
  \E tok \in RejectionTokens : \E i \in 1..Len(body) :
    /\ i + Len(tok) - 1 <= Len(body)
    /\ \A j \in 1..Len(tok) : SameLetter(CharAt(body, i + j - 1), CharAt(tok, j))

\* the answer r of /api/enroll is a 403 whose body carries a rejection token
IsRejection(r) == r.t = "http" /\ r.status = 403 /\ BodyCarriesToken(r.body)

\* the answer r of /api/enroll is a non-2xx answer that is no rejection
IsTransientAnswer(r) ==
  r.t = "http" /\ ~(r.status \in 200..299) /\ ~IsRejection(r)

\* C1: is_rejection_response is true exactly for status 403 with a body that
\* contains revoked, rejected, banned or invalid in any letter case; enroll
\* bails on such an answer and goes to its retry wait on every other non-2xx
\* answer.
C1_ClassifierIff ==
  enrollResp.t = "http" =>
    /\ is_rejection_response(enrollResp.status, enrollResp.body)
         = (enrollResp.status = 403 /\ BodyCarriesToken(enrollResp.body))
    /\ (mpc # "enroll_resp" /\ IsRejection(enrollResp)) =>
         (mpc = "start_err" /\ enrollOutcome = "rejected" /\ waits = <<>>)
    /\ (mpc # "enroll_resp" /\ IsTransientAnswer(enrollResp)) =>
         (mpc = "enroll_wait" /\ enrollOutcome = "" /\ Len(waits) = 1)

\* C1 witness: a 403 whose token is in upper case has been classified a rejection
C1_Witness ==
  /\ mpc = "start_err" /\ enrollOutcome = "rejected"
  /\ enrollResp = EnrollResponse("http", 403, "Device BANNED")

\* the i-th wait of the schedule
ScheduleAt(i) ==
  CASE i = 1 -> 30 [] i = 2 -> 60 [] i = 3 -> 120 [] i = 4 -> 240 [] OTHER -> 300

\* C2: the waits enroll schedules after successive transient failures are 30,
\* 60, 120, 240, 300 and then 300 seconds; every failed request, network error
\* or non-2xx, schedules exactly one wait, and attempt advances by one per
\* elapsed wait up to the end of the table and is never reset.
C2_RetrySchedule ==
  /\ \A i \in 1..Len(waits) : waits[i] = ScheduleAt(i)
  /\ mpc = "enroll_wait" =>
       (Len(waits) = enrollReqs /\ attempt = Min(Len(waits) - 1, 5))
  /\ mpc = "enroll_send" =>
       (Len(waits) = enrollReqs /\ attempt = Min(Len(waits), 5))

\* C2 witness: the seventh wait, after a network error, past the end of the table
C2_Witness ==
  /\ mpc = "enroll_wait" /\ Len(waits) >= 7 /\ waits[7] = 300
  /\ enrollResp.t = "net_err"

\* C3: when /api/enroll answers with a rejection, enroll returns its error in
\* the step that handles the answer, at any position of the schedule: no wait
\* is scheduled for it, and from then on no further enrollment request is sent
\* and no wait is scheduled.
C3_RejectionEndsEnroll ==
  [][/\ (mpc = "enroll_resp" /\ mpc' # "enroll_resp" /\ IsRejection(enrollResp)) =>
          /\ enrollOutcome' = "rejected"
          /\ mpc' = "start_err"
          /\ waits' = waits
          /\ timerElapsed' = timerElapsed
     /\ enrollOutcome = "rejected" =>
          /\ enrollOutcome' = "rejected"
          /\ mpc' \in {"start_err", "start_err_shown"}
          /\ enrollReqs' = enrollReqs
          /\ waits' = waits]_vars

\* C3 witness: a rejection that arrived after the schedule had reached its cap
C3_Witness ==
  /\ mpc = "start_err_shown" /\ enrollOutcome = "rejected"
  /\ IsRejection(enrollResp) /\ Len(waits) >= 6

\* C4: after /api/enroll has been rejected and main has handled the error
\* that agent.start() returned, the agent state is Error(message) and no
\* credential file has been written.
C4_RejectedBecomesError ==
  (mpc = "start_err_shown" /\ enrollOutcome = "rejected") =>
    (state.tag = "Error" /\ keyFile = NoFile)

EnrollPcs == {"enroll_send", "enroll_resp", "enroll_wait"}

\* C5: when the token is cancelled while enroll waits between two attempts
\* (its timer has not elapsed), the wait ends in the cancellation error; once
\* enroll has returned that error no further enrollment request is sent; and
\* no step of enroll writes the credential file.
C5_CancelledWaitEndsEnroll ==
  [][/\ (mpc = "enroll_wait" /\ cancelled /\ ~timerElapsed /\ mpc' # "enroll_wait") =>
          (mpc' = "start_err" /\ enrollOutcome' = "cancelled")
     /\ enrollOutcome = "cancelled" =>
          /\ enrollOutcome' = "cancelled"
          /\ mpc' \in {"start_err", "start_err_shown"}
          /\ enrollReqs' = enrollReqs
     /\ (mpc \in EnrollPcs /\ mpc' # mpc) => keyFile' = keyFile]_vars

\* C5 witness: enroll cancelled in a wait that followed a non-2xx answer, with
\* the schedule at its cap
C5_Witness ==
  /\ mpc = "start_err" /\ enrollOutcome = "cancelled"
  /\ enrollResp.t = "http" /\ attempt = 5 /\ Len(waits) >= 6

ApprovedWithKey(ans) == ans.t = "json" /\ ans.status = "approved" /\ ans.api_key # NoKey
ApprovedWithoutKey(ans) == ans.t = "json" /\ ans.status = "approved" /\ ans.api_key = NoKey

\* C6: wait_for_approval returns Ok only on a poll that returned Approved; a
\* poll returns Approved only for an "approved" answer that carries an api_key,
\* and when it does the credential file holds that key; a poll whose save
\* failed returns an error and wait_for_approval polls again.
C6_ApprovedAfterSave ==
  [][/\ (mpc = "approval_got" /\ mpc' = "approval_ok") =>
          /\ chk["approval"].result.kind = "Approved"
          /\ ApprovedWithKey(chk["approval"].answer)
     /\ (mpc = "approval_poll" /\ mpc' = "approval_got"
           /\ chk'["approval"].result.kind = "Approved") =>
          /\ ApprovedWithKey(chk'["approval"].answer)
          /\ keyFile' = <<trim(chk'["approval"].answer.api_key[1])>>
     /\ (mpc = "approval_got" /\ mpc' # mpc
           /\ ApprovedWithKey(chk["approval"].answer)
           /\ chk["approval"].result.kind # "Approved") =>
          mpc' = "approval_wait"]_vars

\* C6 witness: wait_for_approval has returned Ok on an answer whose api_key
\* carries whitespace, and the file holds the key
C6_Witness ==
  /\ mpc = "approval_ok"
  /\ chk["approval"].answer.api_key = <<" k2\n">>
  /\ keyFile = <<"k2">>

\* C7: an "approved" answer without api_key makes check_status return Pending
\* and leaves the credential file as it was, for every caller; after such a
\* poll wait_for_approval goes back to its wait.
C7_ApprovedWithoutKeyIsPending ==
  [][/\ \A c \in Callers :
          (chk[c] = NoCheck /\ chk'[c] # NoCheck /\ ApprovedWithoutKey(chk'[c].answer)) =>
            (chk'[c].result.kind = "Pending" /\ keyFile' = keyFile)
     /\ (mpc = "approval_got" /\ mpc' # mpc
           /\ ApprovedWithoutKey(chk["approval"].answer)) =>
          mpc' = "approval_wait"]_vars

\* C7 witness: a poll of wait_for_approval was answered "approved" without a
\* key and returned Pending
C7_Witness ==
  /\ mpc = "approval_got"
  /\ ApprovedWithoutKey(chk["approval"].answer)
  /\ chk["approval"].result.kind = "Pending"

\* the callers that go through Agent::check_status
AgentCallers == {"monitor", "install"}

\* C8: while the agent state is Active, a status check answered "approved" or
\* "pending" leaves the state Active.
C8_ActiveStaysActive ==
  [][\A c \in AgentCallers :
       (/\ state = Active
        /\ chk[c] # NoCheck /\ chk'[c] = NoCheck
        /\ chk[c].answer.t = "json"
        /\ chk[c].answer.status \in {"approved", "pending"}) =>
         state' = Active]_vars

\* C9: a status check made while the agent is Active and holds a credential,
\* and answered "revoked", deletes the credential file; and when a check that
\* was answered "revoked" completes, the state is Revoked and has_key() is
\* false.
C9_RevokedDeletesKey ==
  [][\A c \in AgentCallers :
       /\ (/\ state = Active /\ has_key(keyFile)
           /\ chk[c] = NoCheck /\ chk'[c] # NoCheck
           /\ chk'[c].answer.t = "json" /\ chk'[c].answer.status = "revoked") =>
            ~has_key(keyFile')
       /\ (/\ chk[c] # NoCheck /\ chk'[c] = NoCheck
           /\ chk[c].answer.t = "json" /\ chk[c].answer.status = "revoked") =>
            (state' = Revoked /\ ~has_key(keyFile'))]_vars

\* C10: once the agent state is Revoked, no further /api/metrics POST is sent.
C10_NoMetricsAfterRevoked ==
  [][state = Revoked => metricsPosts' = metricsPosts]_vars

\* the /api/check request failed in transit, was answered non-2xx, or its
\* body did not parse
IsTransientCheck(ans) == ans.t \in {"net_err", "http_err", "bad_json"}

\* C11: a status check of Agent::check_status that fails transiently returns
\* an error from EnrollmentManager::check_status without touching the
\* credential file, and when Agent::check_status completes on it the agent
\* state and the credential file are what they were before that step.
C11_TransientCheckChangesNothing ==
  [][\A c \in AgentCallers :
       /\ (chk[c] = NoCheck /\ chk'[c] # NoCheck /\ IsTransientCheck(chk'[c].answer)) =>
            (chk'[c].result.kind = "Err" /\ keyFile' = keyFile /\ state' = state)
       /\ (chk[c] # NoCheck /\ chk'[c] = NoCheck /\ IsTransientCheck(chk[c].answer)) =>
            (state' = state /\ keyFile' = keyFile)]_vars

\* C11 witness: a check of the status monitor has failed on an unparsable
\* body while the agent is Revoked
C11_Witness ==
  /\ chk["monitor"].answer.t = "bad_json"
  /\ chk["monitor"].result.kind = "Err"
  /\ state = Revoked

\* Agent::start has returned, with Ok or with an error
StartReturned == mpc \in {"start_ok", "start_err", "start_err_shown"}

\* C12: Agent::start returns only after the cancellation token has been
\* cancelled.
C12_StartReturnsOnlyAfterCancel == StartReturned => cancelled

\* this step initiates an HTTP request: POST /api/enroll, POST /api/check by
\* any caller, or POST /api/metrics
NewRequest ==
  \/ enrollReqs' = enrollReqs + 1
  \/ metricsPosts' = metricsPosts + 1
  \/ \E c \in Callers : chk[c] = NoCheck /\ chk'[c] # NoCheck

\* C13: once shutdown() has cancelled the token, no step initiates a new HTTP
\* request.
C13_NoRequestAfterShutdown ==
  [][cancelled => ~NewRequest]_vars

\* the task of Agent::start stands at a request that the bounds of the model
\* do not let it send
AtBound ==
  \/ mpc = "enroll_send" /\ enrollReqs = MaxEnrollRequests
  \/ mpc = "metrics_tick" /\ metricsPosts = MaxMetricsPosts

\* C14: after shutdown() the loops end and Agent::start returns: in every
\* run that stays clear of the bounds, from some point after the cancellation
\* on start has returned and the status monitor sends no further check.
C14_ShutdownEndsLoops ==
  <>AtBound \/ (cancelled ~> [](StartReturned /\ chk["monitor"] = NoCheck))

C16_InitialStateFromStore ==
  /\ state \in {Active, NotEnrolled}
  /\ state = Active <=> keyFile # NoFile
  /\ [][state' # state =>
          \/ mpc' # mpc
          \/ \E c \in AgentCallers : chk[c] # NoCheck /\ chk'[c] = NoCheck]_vars

\* C16 witness: the agent as constructed over an existing credential file
C16_Witness ==
  /\ mpc = "start" /\ ~cancelled /\ chk = [c \in Callers |-> NoCheck]
  /\ keyFile = <<"k0">> /\ state = Active

\* C17: a step logs "Agent state changed" exactly when it leaves the agent
\* state different from what it was, so a set_state with the current value
\* changes nothing and logs nothing; and once a set_state(s) has changed the
\* state, a second set_state(s) neither changes it nor logs.
C17_SetStateLogsOnChange ==
  [][/\ logged' <=> state' # state
     /\ state' # state =>
          (set_state(state', state') = state' /\ ~set_state_logs(state', state'))]_vars

\* C17 witness: Agent::start has called set_state(Active) on an agent that was
\* constructed Active, and nothing was logged
C17_Witness ==
  /\ mpc = "metrics_wait" /\ enrollOutcome = "" /\ metricsPosts = 0
  /\ chk = [c \in Callers |-> NoCheck]
  /\ state = Active /\ ~logged

\* C18: a launch that finds a persisted server URL different from the one
\* the previous run was launched with starts with the credential file deleted
\* and the agent NotEnrolled.
C18_UrlChangeDeletesKey ==
  [][launchUrl' # launchUrl => (keyFile' = NoFile /\ state' = NotEnrolled)]_vars


\* the call got as far as the swap: a marker naming a staged file that is
\* there, and the running binary's path known
SwapAttempted ==
  /\ applyResult = "none" /\ applyResult' # "none"
  /\ new_exe_exists(update_files)
  /\ applyIo'[1].current_exe = "ok"

\* C19: when the marker exists, its staged file exists and both renames
\* succeed, apply_pending_update returns true, the running-binary path holds
\* the staged bytes, the backup path holds the previous binary's bytes (the
\* backup is kept), the marker is gone and the staged path is empty.
C19_SwapSucceeds ==
  [][SwapAttempted /\ applyIo'[1].mv_backup = "ok" /\ applyIo'[1].mv_new = "ok"
       => /\ applyResult' = "true"
          /\ currentExe' = staged
          /\ backupExe' = currentExe
          /\ marker' = NoFile
          /\ staged' = NoFile]_vars

\* C20: when renaming the current binary to its backup fails, the marker and
\* the staged file are both deleted, the current binary is unchanged and
\* false is returned.
C20_BackupRenameFails ==
  [][SwapAttempted /\ applyIo'[1].mv_backup = "err"
       => /\ applyResult' = "false"
          /\ marker' = NoFile
          /\ staged' = NoFile
          /\ currentExe' = currentExe]_vars


\* C21: when moving the staged binary into the running-binary path fails, the
\* backup is renamed back, so the old binary is again at that path; when that
\* rollback fails too, the call ends the process ("exit") instead of
\* returning to a start-up that has no binary at the running-binary path.
C21_RollbackOrExit ==
  [][SwapAttempted /\ applyIo'[1].mv_backup = "ok" /\ applyIo'[1].mv_new = "err"
       => IF applyIo'[1].mv_rollback = "ok"
          THEN currentExe' = currentExe /\ applyResult' = "false"
          ELSE applyResult' = "exit"]_vars


\* the call found a marker that parses but names a staged file that is not
\* there
StagedFileMissing ==
  /\ applyResult = "none" /\ applyResult' # "none"
  /\ marker \in {<<"staged">>, <<"absent">>}
  /\ ~new_exe_exists(update_files)

\* C22: when the marker names a staged file that does not exist,
\* apply_pending_update returns false and removes the marker and nothing
\* else: the current binary, the backup and the staged path are untouched.
C22_MissingStagedRemovesOnlyMarker ==
  [][StagedFileMissing
       => /\ applyResult' = "false"
          /\ marker' = NoFile
          /\ currentExe' = currentExe
          /\ backupExe' = backupExe
          /\ staged' = staged]_vars

\* C23: at every start-up apply_pending_update has run before the agent
\* initiates any HTTP request, and after a swap that succeeded no marker file
\* is left for the new binary to find.
C23_ApplyBeforeNetwork ==
  [][/\ NewRequest => applyResult # "none"
     /\ applyResult' = "true" => marker' = NoFile]_vars


\* C24: in every reachable state of the updater the pending marker exists if
\* and only if the whole, size-verified candidate binary is at the staged
\* path the marker names.
C24_MarkerIffStaged ==
  (marker # NoFile) <=> (marker = <<"staged">> /\ staged = <<"new">>)

\* this step is a download_update call
DownloadStep == downloadLog = <<>> /\ downloadLog' # <<>>

\* C25: when the downloaded file's size is not the advertised one,
\* download_update fails, the staged file is deleted and the call writes no
\* marker; a call writes the marker only after its size check has passed.
C25_SizeMismatchCleansUp ==
  [][DownloadStep
       => /\ size_mismatch(downloadLog'[1].in)
               => /\ ~downloadLog'[1].ok
                  /\ staged' = NoFile
                  /\ marker' = marker
          /\ marker' # marker
               => /\ downloadLog'[1].in.body = "new"
                  /\ downloadLog'[1].in.fault \in {"none", "write_marker_write"}]_vars


\* this step is a check_for_update call
CheckStep == updateCheck = <<>> /\ updateCheck' # <<>>

\* (major, minor, patch) of a above that of b, each compared as an integer
TripleGreater(a, b) ==
  \/ a.major > b.major
  \/ a.major = b.major /\ a.minor > b.minor
  \/ a.major = b.major /\ a.minor = b.minor /\ a.patch > b.patch

TripleEqual(a, b) == a.major = b.major /\ a.minor = b.minor /\ a.patch = b.patch

\* the answer to tag `tag` with an rmm.exe asset, for a build of version `current`
ReleaseAnswer(tag, current) ==
  check_for_update([fetch |-> "ok", tag |-> tag, has_exe |-> TRUE, current |-> current])

\* the version orderings the specification lists
VersionExamples ==
  /\ ReleaseAnswer("v1.0.1", "1.0.0") = "some"
  /\ ReleaseAnswer("v1.1.0", "1.0.9") = "some"
  /\ ReleaseAnswer("v2.0.0", "1.9.9") = "some"
  /\ ReleaseAnswer("v1.0.0", "1.0.0") = "none"
  /\ ReleaseAnswer("v0.9.0", "1.0.0") = "none"

SaveThenRead ==
  /\ storeOp # <<>> /\ storeOp[1].op = "save" /\ storeOp[1].ok
  /\ storeOp'[1].op = "read" /\ storeOp'[1].had

\* S without its leading and trailing whitespace, for the credentials of the
\* model
Stripped(S) ==
  CASE S = " k2\n" -> "k2"
    [] S = "\tk3 " -> "k3"
    [] OTHER -> S

\* C27 as stated: save_key(S) followed by read_key() returns exactly S, with
\* has_key() true in between.
C27_RoundTripExact ==
  [][SaveThenRead /\ storeOp'[1].ok
       => has_key(keyFile) /\ storeOp'[1].ret = storeOp[1].key]_vars

\* C27, amended: save_key(S) followed by read_key() returns S without its
\* leading and trailing whitespace (exactly S when it has none), and
\* has_key() is true in between.
C27_RoundTripTrimmed ==
  [][SaveThenRead /\ storeOp'[1].ok
       => has_key(keyFile) /\ storeOp'[1].ret = Stripped(storeOp[1].key)]_vars

\* a read that returned "k2" after " k2\n" was saved
C27_Witness ==
  /\ storeOp # <<>> /\ storeOp[1].op = "read" /\ storeOp[1].ok
  /\ storeOp[1].ret = "k2" /\ keyFile = <<"k2">>

\* this step is a delete_key call
DeleteStep == storeOp' # storeOp /\ storeOp'[1].op = "delete"

\* C28: after a delete_key that returned Ok has_key() is false; on an absent
\* credential delete_key returns Ok and changes nothing, so a second
\* delete_key after a first leaves what the first left.
C28_DeleteIdempotent ==
  [][DeleteStep
       => /\ storeOp'[1].ok => ~has_key(keyFile')
          /\ ~has_key(keyFile) => storeOp'[1].ok /\ keyFile' = keyFile
          /\ (storeOp # <<>> /\ storeOp[1].op = "delete" /\ storeOp[1].ok)
               => storeOp'[1].ok /\ keyFile' = keyFile]_vars

\* a delete_key that found no credential, returned Ok and left none
C28_Witness ==
  /\ storeOp # <<>> /\ storeOp[1].op = "delete" /\ ~storeOp[1].had /\ storeOp[1].ok
  /\ keyFile = NoFile


\* this step is one tick of the metrics loop
TickStep == mpc = "metrics_tick" /\ metricsPosts' = metricsPosts + 1

\* C29: a 401 answer to the metrics POST is surfaced (the tick returns an
\* error to the loop, or the agent state or the loop's course changes), a 429
\* answer is a successful skip until the next tick, and every other non-2xx
\* answer or I/O error is logged and swallowed.
C29_SubmitOutcomes ==
  [][TickStep
       => LET a == submitLog'[1].answer
              t == submitLog'[1].tick
          IN /\ (a.sent /\ a.status = UNAUTHORIZED)
                  => \/ t.ret = "Err"
                     \/ state' # state
                     \/ mpc' # "metrics_wait"
             /\ (a.sent /\ a.status = TOO_MANY_REQUESTS)
                  => t.ret = "Ok" /\ mpc' = "metrics_wait"
             /\ (~a.sent \/ (~is_success(a.status)
                             /\ a.status \notin {UNAUTHORIZED, TOO_MANY_REQUESTS}))
                  => t.ret = "Ok" /\ t.log = "warn" /\ mpc' = "metrics_wait"]_vars

\* C30: the metrics loop ends only when the token is cancelled; a tick,
\* whatever its collection and submission met, returns the loop to its
\* select with a fresh sleep of one interval, and from there the elapsed
\* sleep leads to the next tick unless the token is cancelled.
C30_LoopSurvivesFailures ==
  [][/\ (mpc \in {"metrics_wait", "metrics_tick"} /\ mpc' = "start_ok") => cancelled
     /\ TickStep => mpc' = "metrics_wait" /\ ~timerElapsed'
     /\ (mpc = "metrics_wait" /\ mpc' = "metrics_tick") => timerElapsed
     /\ (mpc = "metrics_wait" /\ mpc' # mpc /\ ~cancelled) => mpc' = "metrics_tick"]_vars

\* the loop stands at its next tick after a tick whose submission failed
\* with Netdata down
C30_Witness ==
  /\ mpc = "metrics_tick"
  /\ submitLog # <<>>
  /\ submitLog[1].tick.submit = "Err"
  /\ submitLog[1].netdata = "down"
  /\ ~cancelled

(***************************************************************************)
(* C31                                                                      *)
(***************************************************************************)
\* the fields a request fills
SucceededRequest(x) == x.sent /\ is_success(x.status) /\ x.json

IsFingerprint(s) == Len(s) = 64 /\ all_in(HexChars, s)

\* C32: two successive SystemInfo::gather calls on an unchanged host give
\* the same hardware_fingerprint, and every fingerprint is 64 lower-case hex
\* characters.
C32_SameFingerprint ==
  /\ \A i \in 1..Len(gathered) : IsFingerprint(gathered[i].info.hardware_fingerprint)
  /\ \A i \in 1..Len(gathered) : \A j \in 1..Len(gathered) :
       gathered[i].info.hardware_fingerprint = gathered[j].info.hardware_fingerprint

\* the part of C32 that holds: the width and alphabet of the fingerprint,
\* and equal fingerprints whenever the platform's command was spawned in
\* both calls or in neither
C32_SameFingerprintWhenSpawnedAlike ==
  /\ \A i \in 1..Len(gathered) : IsFingerprint(gathered[i].info.hardware_fingerprint)
  /\ \A i \in 1..Len(gathered) : \A j \in 1..Len(gathered) :
       gathered[i].spawned = gathered[j].spawned =>
         gathered[i].info.hardware_fingerprint = gathered[j].info.hardware_fingerprint

(***************************************************************************)
(* C33                                                                      *)
(***************************************************************************)
\* wait_for_approval holds the result of a poll
PollReturned(kind) == mpc = "approval_got" /\ chk["approval"].result.kind = kind

\* C33: wait_for_approval returns Ok only on a poll that gave Approved, and
\* an error only on a poll that gave Revoked or on the cancellation branch
\* of its select; a poll that gave Pending, Unknown or an error sends it
\* back to a fresh sleep of the poll interval, and the next poll is made
\* only once that sleep has elapsed.
C33_ThreeWaysOut ==
  [][/\ (mpc # "approval_ok" /\ mpc' = "approval_ok") => PollReturned("Approved")
     /\ (mpc # "approval_err" /\ mpc' = "approval_err") =>
          \/ PollReturned("Revoked") /\ wfaErr' = "Device was revoked during enrollment"
          \/ /\ mpc = "approval_wait" /\ cancelled
             /\ wfaErr' = "Enrollment cancelled by shutdown signal"
     /\ (\E kind \in {"Pending", "Unknown", "Err"} : PollReturned(kind)) /\ mpc' # mpc =>
          mpc' = "approval_wait" /\ ~timerElapsed'
     /\ (mpc = "approval_wait" /\ mpc' # mpc) =>
          \/ mpc' = "approval_poll" /\ timerElapsed
          \/ mpc' = "approval_err" /\ cancelled
     /\ (mpc = "approval_poll" /\ mpc' # mpc) => mpc' = "approval_got"]_vars

\* a poll of wait_for_approval came back with an unrecognized status
C33_Witness == PollReturned("Unknown") /\ state = PendingApproval /\ ~cancelled

(***************************************************************************)
(* C34                                                                      *)
(***************************************************************************)
\* Agent::start has not had an /api/enroll request accepted yet: it has not
\* sent one, awaits the answer, or sleeps before a retry
EnrollUnaccepted ==
  /\ mpc \in {"start", "enroll_send", "enroll_resp", "enroll_wait"}
  /\ enrollOutcome = ""

\* C34: the state is PendingApproval only after an /api/enroll request was
\* accepted; it is never PendingApproval while enroll has not sent its
\* request or is still retrying.
C34_PendingOnlyAfterAccepted == ~(state = PendingApproval /\ EnrollUnaccepted)

(***************************************************************************)
(* C35                                                                      *)
(***************************************************************************)
\* C35: whenever a step sets the state to Active, the credential file exists
\* at that moment.
C35_ActiveWrittenWithKey ==
  [][(state # Active /\ state' = Active) => has_key(keyFile')]_vars

(***************************************************************************)
(* C36                                                                      *)
(***************************************************************************)
\* C36: apply_pending_update never moves an unverified staged file to the
\* running-binary path: the binary there is never a partial download, and
\* a download that failed mid-stream or on the size check leaves no marker
\* and staged file that apply_pending_update would install.
C36_NoUnverifiedInstall ==
  /\ currentExe # <<"part">>
  /\ (/\ downloadLog # <<>>
      /\ ~downloadLog[1].ok
      /\ downloadLog[1].in.fault = "stream" \/ size_mismatch(downloadLog[1].in))
       => ~(new_exe_exists(update_files) /\ staged # <<"new">>)

(***************************************************************************)
(* C37                                                                      *)
(***************************************************************************)
\* caller c's check_status call was answered in this step, by "approved"
\* with an api_key
ApprovedAnswerTo(c) ==
  /\ chk'[c] # chk[c]
  /\ chk'[c].answer.t = "json"
  /\ chk'[c].answer.status = "approved"
  /\ chk'[c].answer.api_key # NoKey

\* C37: the credential file gets new content only in a step in which an
\* /api/check request is answered "approved" with an api_key, and the
\* content is that api_key (trimmed); an accepted /api/enroll, a pending,
\* revoked or unknown answer and a failed request write no credential.
C37_KeyWrittenOnlyOnApprovedWithKey ==
  [][(keyFile' # keyFile /\ has_key(keyFile')) =>
       \E c \in Callers :
         ApprovedAnswerTo(c) /\ keyFile' = <<trim(chk'[c].answer.api_key[1])>>]_vars

\* enroll was accepted with no credential before it, and the credential
\* was then written by an approval poll answered "approved" with " k2\n"
C37_Witness ==
  /\ enrollOutcome = "accepted"
  /\ mpc = "approval_got"
  /\ chk["approval"].answer.api_key = <<" k2\n">>
  /\ keyFile = <<"k2">>

(***************************************************************************)
(* C38                                                                      *)
(***************************************************************************)
\* the positions of Agent::start inside and after the metrics loop
MetricsPositions == {"metrics_wait", "metrics_tick", "start_ok"}

UnrecognizedStatus(ans) ==
  ans.t = "json" /\ ans.status \notin {"approved", "pending", "revoked"}

\* C40: a status check of the supervisor (monitor or install handler) that
\* is answered with an unrecognized status returns Unknown(<raw>) without
\* touching the credential file, and the supervisor then sets the state to
\* Error("Unknown status: <raw>") whatever the state was, again without
\* touching the credential file.
C40_UnknownStatusIsError ==
  [][\A c \in AgentCallers :
       /\ (chk[c] = NoCheck /\ chk'[c] # NoCheck /\ UnrecognizedStatus(chk'[c].answer)) =>
            /\ keyFile' = keyFile
            /\ chk'[c].result.kind = "Unknown"
            /\ state' = state
       /\ (chk[c] # NoCheck /\ chk'[c] = NoCheck /\ UnrecognizedStatus(chk[c].answer)) =>
            /\ state' = Error("Unknown status: " \o chk[c].answer.status)
            /\ keyFile' = keyFile]_vars

\* an agent that started Active with its credential and runs the metrics
\* loop is in Error("Unknown status: suspended"), the credential still there
C40_Witness ==
  /\ state = Error("Unknown status: suspended")
  /\ keyFile = <<"k0">> /\ metricsKey = <<"k0">>
  /\ enrollOutcome = ""

(***************************************************************************)
(* C39                                                                      *)
(***************************************************************************)
\* C39: with updates disabled start_update_loop returns without a check;
\* otherwise its first step is a check, every later check follows a sleep
\* of the interval that has elapsed, no check_and_download run begins while
\* another is under way, the loop returns only on the cancellation branch
\* of its select, and once the token is cancelled it does return.
C39_UpdateLoop ==
  /\ [][LET old == updLoop[1]
            new == updLoop'[1]
        IN /\ old.skip => new.checks = 0 /\ new.pc \in {"entry", "returned"}
           /\ (old.pc = "entry" /\ ~old.skip /\ new # old) => new.checks = 1
           /\ new.checks # old.checks =>
                /\ new.checks = old.checks + 1
                /\ old.running = 0
                /\ old.pc = "entry" \/ (old.pc = "select" /\ old.elapsed)
           /\ new.running <= 1
           /\ (old.pc # "returned" /\ new.pc = "returned") =>
                \/ old.pc = "entry" /\ old.skip
                \/ old.pc = "select" /\ cancelled]_vars
  /\ (cancelled ~> updLoop[1].pc = "returned")

\* the loop has returned on cancellation after its check at start and two
\* checks on the interval, the last of which ended in an error
C39_Witness ==
  /\ updLoop[1].pc = "returned" /\ cancelled
  /\ updLoop[1].checks = 3 /\ ~updLoop[1].skip
  /\ updLoop[1].last # <<>> /\ check_and_download(updLoop[1].last[1]) = "Err"

====
